---- MODULE Spec2Model ----
(***************************************************************************)
(* Model of the query-understanding core of backend/nandu_brain_backup.py: *)
(* the rate limiter, the classification cache, the fallback classifier,    *)
(* merge_duplicates and the response orchestrator get_nandu_response.      *)
(*                                                                         *)
(* Python strings are modelled as sequences of one-character strings, so   *)
(* that lower(), strip(), split(), translate() and the `in` substring test *)
(* are computed character by character, as the interpreter computes them.  *)
(***************************************************************************)
EXTENDS Integers, Sequences, FiniteSets, TLC

VARIABLES
    now,                  \* the wall clock read by time.time(), in seconds
    rate_limiter,         \* _rate_limiter: client id -> list of timestamps
    classification_cache, \* dict in insertion order: <<[key, classification, timestamp]>>
    audit_log,            \* logs/query_audit.jsonl, one record per line
    calls,                \* the components invoked by the last call and the cache
                          \* entries it deleted, in order
    response,             \* what the last request returned to its caller
    error_tracker,        \* _error_tracker: count, last_reset, recent_errors
    ncalls,               \* the number of calls made so far
    request,              \* the last call: the function and its arguments
    query_type,           \* what the last call of the classifier or of the cache
                          \* lookup returned ("" for None)
    results,              \* the list handed to merge_duplicates
    groups,               \* merge_duplicates' dict `groups` after the last call
    merged,               \* TRUE once merge_duplicates has run on `results`
    prev_groups,          \* `groups` of the call before the list was reordered
    reordered,            \* TRUE once the list has been reordered and merged again
    faiss_cache,          \* per index: the keys of _faiss_cache / _general_faiss_cache
    faiss_loading,        \* per index: _faiss_loading / _general_faiss_loading
    loader,               \* per thread: where it is in a loader function
    worker,               \* per thread: where it is in the rate-limit wrapper
    admitted,             \* the requests the wrapper let through: client and time
    fn_call,              \* the pure function applied last and its arguments
    fn_result,            \* what it returned
    admin_log,            \* the admin-activity records, one per line
    site,                 \* the settings and files fetch_website_content and
                          \* get_general_answer read
    classifier            \* per thread: where it is in get_cached_classification
                          \* or cache_classification

vars == <<now, rate_limiter, classification_cache, audit_log, calls, response,
          error_tracker, ncalls, request, query_type, results, groups, merged,
          prev_groups, reordered, faiss_cache, faiss_loading, loader, worker,
          admitted, fn_call, fn_result, admin_log, site, classifier>>

serviceVars == <<now, rate_limiter, classification_cache, audit_log, calls, response,
                 error_tracker, ncalls, request, query_type>>
mergeVars == <<results, groups, merged, prev_groups, reordered>>
loaderVars == <<faiss_cache, faiss_loading, loader>>
limiterVars == <<worker, admitted>>
functionVars == <<fn_call, fn_result>>
adminVars == <<admin_log>>
siteVars == <<site>>
classifierVars == <<classifier>>
threadVars == <<loaderVars, limiterVars, functionVars, adminVars, siteVars,
               classifierVars>>

(***************************************************************************)
(* Python string primitives                                                *)
(***************************************************************************)
UpperChars == <<"A","B","C","D","E","F","G","H","I","J","K","L","M",
                "N","O","P","Q","R","S","T","U","V","W","X","Y","Z">>
LowerChars == <<"a","b","c","d","e","f","g","h","i","j","k","l","m",
                "n","o","p","q","r","s","t","u","v","w","x","y","z">>
Digits == {"0","1","2","3","4","5","6","7","8","9"}

\* str.isspace characters that can be written in a TLA+ string
Whitespace == {" ", "\t", "\n", "\r", "\f"}

\* string.punctuation (the backquote cannot be written in a TLA+ string and no
\* modelled input contains it)
Punctuation == {"!", "\"", "#", "$", "%", "&", "'", "(", ")", "*", "+", ",",
                "-", ".", "/", ":", ";", "<", "=", ">", "?", "@", "[", "\\",
                "]", "^", "_", "{", "|", "}", "~"}

Range(s) == {s[i] : i \in DOMAIN s}

LowerChar(c) ==
    IF \E i \in 1..26 : UpperChars[i] = c
    THEN LowerChars[CHOOSE i \in 1..26 : UpperChars[i] = c]
    ELSE c

\* str.lower()
Lower(s) == [i \in 1..Len(s) |-> LowerChar(s[i])]

\* str.strip()
Strip(s) ==
    LET keep == {i \in 1..Len(s) : s[i] \notin Whitespace}
    IN  IF keep = {} THEN <<>>
        ELSE SubSeq(s, CHOOSE i \in keep : \A j \in keep : i <= j,
                       CHOOSE i \in keep : \A j \in keep : i >= j)

\* str.translate(str.maketrans('', '', chars))
DeleteChars(s, chars) == SelectSeq(s, LAMBDA c : c \notin chars)

\* pattern in s
Contains(s, pat) ==
    \E i \in 0..(Len(s) - Len(pat)) : SubSeq(s, i + 1, i + Len(pat)) = pat

\* s.split(sep)[0] for a one-character separator
BeforeFirst(s, sep) ==
    IF \E i \in 1..Len(s) : s[i] = sep
    THEN SubSeq(s, 1, (CHOOSE i \in 1..Len(s) :
                          s[i] = sep /\ \A j \in 1..(i - 1) : s[j] # sep) - 1)
    ELSE s

\* sep.join(s.split(sep)[1:]), the text after the first separator
AfterFirst(s, sep) ==
    IF \E i \in 1..Len(s) : s[i] = sep
    THEN SubSeq(s, (CHOOSE i \in 1..Len(s) :
                       s[i] = sep /\ \A j \in 1..(i - 1) : s[j] # sep) + 1, Len(s))
    ELSE <<>>

\* s.split(): the maximal runs of non-whitespace characters, in order
RECURSIVE SplitFrom(_, _, _)
SplitFrom(s, i, word) ==
    IF i > Len(s)
    THEN IF word = <<>> THEN <<>> ELSE <<word>>
    ELSE IF s[i] \in Whitespace
         THEN IF word = <<>> THEN SplitFrom(s, i + 1, <<>>)
              ELSE <<word>> \o SplitFrom(s, i + 1, <<>>)
         ELSE SplitFrom(s, i + 1, Append(word, s[i]))

Split(s) == SplitFrom(s, 1, <<>>)

\* ' '.join(words)
RECURSIVE JoinSpace(_)
JoinSpace(words) ==
    IF words = <<>> THEN <<>>
    ELSE IF Len(words) = 1 THEN words[1]
    ELSE words[1] \o <<" ">> \o JoinSpace(Tail(words))

\* printable ASCII (without the backquote) in code-point order; Ord keeps the
\* order of ord(), which is all that the comparison of strings uses
AsciiChars == <<" ","!","\"","#","$","%","&","'","(",")","*","+",",","-",".","/",
                "0","1","2","3","4","5","6","7","8","9",":",";","<","=",">","?","@",
                "A","B","C","D","E","F","G","H","I","J","K","L","M",
                "N","O","P","Q","R","S","T","U","V","W","X","Y","Z",
                "[","\\","]","^","_",
                "a","b","c","d","e","f","g","h","i","j","k","l","m",
                "n","o","p","q","r","s","t","u","v","w","x","y","z",
                "{","|","}","~">>

Ord(c) == IF \E i \in DOMAIN AsciiChars : AsciiChars[i] = c
          THEN CHOOSE i \in DOMAIN AsciiChars : AsciiChars[i] = c
          ELSE 0

\* a < b for Python strings
RECURSIVE StrLess(_, _)
StrLess(a, b) ==
    IF b = <<>> THEN FALSE
    ELSE IF a = <<>> THEN TRUE
    ELSE IF Ord(a[1]) # Ord(b[1]) THEN Ord(a[1]) < Ord(b[1])
    ELSE StrLess(Tail(a), Tail(b))

(***************************************************************************)
(* Inputs: the queries the model's callers send                            *)
(***************************************************************************)
MaxCalls == 2
MaxRateCalls == 22
RateTick == 30
MaxRateTime == 60
MaxCacheCalls == 4
TickEvery == 250
TickStep == 3600
MaxTime == 7200

\* A query of 301 characters
LongQuery == [i \in 1..301 |-> "a"]

\* "", "a", "xkcdqwrtz", "python books", "Library Timings ", "books in library",
\* "fine", "fine <b>" and the query of 301 characters
QueryPool == {<<>>,
              <<"a">>,
              <<"x","k","c","d","q","w","r","t","z">>,
              <<"p","y","t","h","o","n"," ","b","o","o","k","s">>,
              <<"L","i","b","r","a","r","y"," ","T","i","m","i","n","g","s"," ">>,
              <<"b","o","o","k","s"," ","i","n"," ","l","i","b","r","a","r","y">>,
              <<"f","i","n","e">>,
              <<"f","i","n","e"," ","<","b",">">>,
              LongQuery}

\* What the spelling corrector can make of a query, besides leaving it as it
\* is: "python book"
CorrectedTexts == {<<"p","y","t","h","o","n"," ","b","o","o","k">>}

SearchModes == {"auto", "books", "library", "website"}

\* The client the API server passes as client_ip: "192.168.1.10"
ApiClients == {<<"1","9","2",".","1","6","8",".","1",".","1","0">>}

\* With "default", the client id of a call without client_ip
ClientPool == ApiClients \cup {<<"d","e","f","a","u","l","t">>}

\* The queries classified directly: "fine", " Fine ", "python books" and
\* "how to find a book"
ClassifyPool == {<<"f","i","n","e">>, <<" ","F","i","n","e"," ">>, <<"p","y","t","h","o","n"," ","b","o","o","k","s">>, <<"h","o","w"," ","t","o"," ","f","i","n","d"," ","a"," ","b","o","o","k">>}

\* Decimal digits of n
DigitChars == <<"0","1","2","3","4","5","6","7","8","9">>

RECURSIVE Numeral(_)
Numeral(n) ==
    IF n < 10 THEN <<DigitChars[n + 1]>>
    ELSE Append(Numeral(n \div 10), DigitChars[(n % 10) + 1])

\* Distinct queries to fill the cache with: "fine 1", "2", "fine 3", "4", ...
MaxInserts == 502
FillQuery(n) ==
    (IF n % 2 = 1 THEN <<"f","i","n","e"," ">> ELSE <<>>) \o Numeral(n)

\* Every text of the pools that gets as far as validation
KnownQueries ==
    LET raw == (QueryPool \ {LongQuery}) \cup CorrectedTexts \cup ClassifyPool
    IN  raw \cup {Strip(q) : q \in raw}

(***************************************************************************)
(* Regular-expression primitives (re, ASCII inputs)                        *)
(***************************************************************************)
IsAlpha(c) == c \in Range(UpperChars) \cup Range(LowerChars)

\* \w
IsWordChar(c) == IsAlpha(c) \/ c \in Digits \/ c = "_"

\* \b just before position i (1..Len(s)+1)
WordBoundary(s, i) ==
    LET w(k) == k \in 1..Len(s) /\ IsWordChar(s[k])
    IN  w(i - 1) # w(i)

\* the literal w at position i
MatchAt(s, i, w) ==
    i >= 1 /\ i + Len(w) - 1 <= Len(s) /\ SubSeq(s, i, i + Len(w) - 1) = w

\* re.search(r'\b(w1|w2|...)\b', s)
HasWord(s, ws) ==
    \E w \in ws : \E i \in 1..Len(s) :
        WordBoundary(s, i) /\ MatchAt(s, i, w) /\ WordBoundary(s, i + Len(w))

\* any(p in s for p in patterns)
AnyIn(s, patterns) == \E k \in DOMAIN patterns : Contains(s, patterns[k])

AllDigits(s, i, n) == i + n - 1 <= Len(s) /\ \A k \in i..(i + n - 1) : s[k] \in Digits

\* re.search(r'\b(?:\d{9}[\dX]|\d{13})\b', s)
HasIsbn(s) ==
    \E i \in 1..Len(s) :
      /\ WordBoundary(s, i)
      /\ \/ /\ AllDigits(s, i, 9)
            /\ i + 9 <= Len(s)
            /\ s[i + 9] \in Digits \cup {"X"}
            /\ WordBoundary(s, i + 10)
         \/ /\ AllDigits(s, i, 13)
            /\ WordBoundary(s, i + 13)

SearchOrFind == {<<"s","e","a","r","c","h">>, <<"f","i","n","d">>}
OpacNames == {<<"o","p","a","c">>, <<"c","a","t","a","l","o","g","u","e">>, <<"c","a","t","a","l","o","g">>}

\* r"\bhow (to|do i|can i)\s+(search|find)\b"
HowToSearch(s) ==
    \E i \in 1..Len(s) :
    \E alt \in {<<"t","o">>, <<"d","o"," ","i">>, <<"c","a","n"," ","i">>} :
    \E n \in 1..Len(s) :
    \E w \in SearchOrFind :
      LET a == i + 4
          b == a + Len(alt)
      IN  /\ WordBoundary(s, i)
          /\ MatchAt(s, i, <<"h","o","w"," ">>)
          /\ MatchAt(s, a, alt)
          /\ b + n - 1 <= Len(s)
          /\ \A k \in b..(b + n - 1) : s[k] \in Whitespace
          /\ MatchAt(s, b + n, w)
          /\ WordBoundary(s, b + n + Len(w))

\* r"\bhow to use (opac|catalogue|catalog)\b" and r"\bhow do i use (...)\b"
HowToUse(s) ==
    \E i \in 1..Len(s) :
    \E lead \in {<<"h","o","w"," ","t","o"," ","u","s","e"," ">>, <<"h","o","w"," ","d","o"," ","i"," ","u","s","e"," ">>} :
    \E w \in OpacNames :
      /\ WordBoundary(s, i)
      /\ MatchAt(s, i, lead)
      /\ MatchAt(s, i + Len(lead), w)
      /\ WordBoundary(s, i + Len(lead) + Len(w))

\* r"\bguide\b.*\b(search|find)\b"
GuideToSearch(s) ==
    \E i \in 1..Len(s) :
    \E j \in 1..Len(s) :
    \E w \in SearchOrFind :
      /\ WordBoundary(s, i)
      /\ MatchAt(s, i, <<"g","u","i","d","e">>)
      /\ WordBoundary(s, i + 5)
      /\ j >= i + 5
      /\ \A k \in (i + 5)..(j - 1) : s[k] # "\n"
      /\ WordBoundary(s, j)
      /\ MatchAt(s, j, w)
      /\ WordBoundary(s, j + Len(w))

\* any(re.search(p, query_lower) for p in instructional_patterns)
Instructional(s) == HowToSearch(s) \/ HowToUse(s) \/ GuideToSearch(s)

(***************************************************************************)
(* is_valid_query                                                          *)
(***************************************************************************)
LENGTH_ERROR == "Please enter a valid query with at least 2 characters."
GIBBERISH_ERROR == "I couldn't understand your query. Please enter a valid question about books, authors, or library services."

Vowels == {"a","e","i","o","u","A","E","I","O","U"}

CountIf(s, Test(_)) == Cardinality({i \in DOMAIN s : Test(s[i])})

\* s.count(pat): the occurrences found left to right without overlap
RECURSIVE CountFrom(_, _, _)
CountFrom(s, pat, i) ==
    IF i + Len(pat) - 1 > Len(s) THEN 0
    ELSE IF MatchAt(s, i, pat) THEN 1 + CountFrom(s, pat, i + Len(pat))
    ELSE CountFrom(s, pat, i + 1)

StrCount(s, pat) == CountFrom(s, pat, 1)

\* A validation that looks for repeated pairs in queries of any length
is_valid_query_any_length(query) ==
    LET letter_count == CountIf(query, IsAlpha)
        vowel_count  == CountIf(query, LAMBDA c : c \in Vowels)
    IN  IF query = <<>> \/ Len(Strip(query)) < 2
        THEN <<FALSE, LENGTH_ERROR>>
        ELSE IF letter_count > 5 /\ vowel_count * 100 < letter_count * 15
        THEN <<FALSE, GIBBERISH_ERROR>>
        ELSE IF \E i \in 1..(Len(query) - 1) :
                      StrCount(query, SubSeq(query, i, i + 1)) * 4 > Len(query)
        THEN <<FALSE, GIBBERISH_ERROR>>
        ELSE <<TRUE, "">>

\* is_valid_query(query) -> (is_valid, error_message)
is_valid_query(query) ==
    LET letter_count == CountIf(query, IsAlpha)
        vowel_count  == CountIf(query, LAMBDA c : c \in Vowels)
    IN  IF query = <<>> \/ Len(Strip(query)) < 2
        THEN <<FALSE, LENGTH_ERROR>>
        ELSE IF letter_count > 5 /\ vowel_count * 100 < letter_count * 15
        THEN <<FALSE, GIBBERISH_ERROR>>
        ELSE IF /\ Len(query) > 4
                /\ \E i \in 1..(Len(query) - 3) :
                      StrCount(query, SubSeq(query, i, i + 1)) * 4 > Len(query)
        THEN <<FALSE, GIBBERISH_ERROR>>
        ELSE <<TRUE, "">>

\* @lru_cache: each query is validated once
is_valid_query_cached == [q \in KnownQueries |-> is_valid_query(q)]

(***************************************************************************)
(* classify_query_fallback                                                 *)
(***************************************************************************)
\* general_keywords (lines 882-896)
general_keywords == <<
    <<"t","i","m","i","n","g">>,
    <<"h","o","u","r","s">>,
    <<"o","p","e","n">>,
    <<"c","l","o","s","e">>,
    <<"s","c","h","e","d","u","l","e">>,
    <<"p","o","l","i","c","y">>,
    <<"r","u","l","e","s">>,
    <<"r","e","g","u","l","a","t","i","o","n">>,
    <<"m","e","m","b","e","r","s","h","i","p">>,
    <<"r","e","g","i","s","t","e","r">>,
    <<"w","i","f","i">>,
    <<"p","r","i","n","t","e","r">>,
    <<"f","a","c","i","l","i","t","y">>,
    <<"s","e","r","v","i","c","e">>,
    <<"r","e","a","d","i","n","g"," ","r","o","o","m">>,
    <<"f","i","n","e">>,
    <<"p","e","n","a","l","t","y">>,
    <<"o","v","e","r","d","u","e">>,
    <<"c","h","a","r","g","e","s">>,
    <<"e","b","o","o","k">>,
    <<"e","-","b","o","o","k">>,
    <<"d","a","t","a","b","a","s","e">>,
    <<"e","-","j","o","u","r","n","a","l">>,
    <<"v","p","n">>,
    <<"h","o","w"," ","t","o"," ","i","s","s","u","e">>,
    <<"h","o","w"," ","t","o"," ","r","e","t","u","r","n">>,
    <<"h","o","w"," ","t","o"," ","b","o","r","r","o","w">>,
    <<"h","o","w"," ","t","o"," ","r","e","n","e","w">>,
    <<"g","r","a","m","m","a","r","l","y">>,
    <<"t","u","r","n","i","t","i","n">>,
    <<"s","c","o","p","u","s">>,
    <<"m","e","n","d","e","l","e","y">>,
    <<"l","i","b","r","a","r","i","a","n">>,
    <<"s","t","a","f","f">>,
    <<"h","e","l","p","d","e","s","k">>,
    <<"c","o","n","t","a","c","t">>,
    <<"b","o","r","r","o","w"," ","l","i","m","i","t">>,
    <<"i","s","s","u","e"," ","l","i","m","i","t">>,
    <<"b","o","r","r","o","w","i","n","g"," ","l","i","m","i","t">>,
    <<"t","e","c","h","n","o","b","o","o","t","h">>,
    <<"s","t","u","d","e","n","t">>,
    <<"s","t","u","d","e","n","t","s">>,
    <<"f","a","c","u","l","t","y">>,
    <<"p","h","d">>,
    <<"p","g">>,
    <<"u","g">>,
    <<"m","t","e","c","h">>,
    <<"b","t","e","c","h">>,
    <<"h","o","w"," ","m","a","n","y"," ","b","o","o","k","s">>,
    <<"c","a","n"," ","i"," ","b","o","r","r","o","w">>,
    <<"c","a","n"," ","i"," ","i","s","s","u","e">>,
    <<"a","l","l","o","w","e","d"," ","t","o"," ","b","o","r","r","o","w">>>>

\* eresource_patterns (lines 899-905)
eresource_patterns == <<
    <<"o","n","l","i","n","e"," ","j","o","u","r","n","a","l">>,
    <<"e","-","j","o","u","r","n","a","l">>,
    <<"e","j","o","u","r","n","a","l","s">>,
    <<"e","-","j","o","u","r","n","a","l","s">>,
    <<"d","i","g","i","t","a","l"," ","j","o","u","r","n","a","l">>,
    <<"e","l","e","c","t","r","o","n","i","c"," ","j","o","u","r","n","a","l">>,
    <<"j","o","u","r","n","a","l"," ","a","c","c","e","s","s">>,
    <<"h","o","w"," ","t","o"," ","a","c","c","e","s","s"," ","j","o","u","r","n","a","l">>,
    <<"a","c","c","e","s","s"," ","o","n","l","i","n","e">>,
    <<"a","c","c","e","s","s"," ","e","-">>,
    <<"o","n","l","i","n","e"," ","r","e","s","o","u","r","c","e">>,
    <<"d","i","g","i","t","a","l"," ","r","e","s","o","u","r","c","e">>,
    <<"e","-","r","e","s","o","u","r","c","e">>,
    <<"o","n","l","i","n","e"," ","d","a","t","a","b","a","s","e">>,
    <<"d","i","g","i","t","a","l"," ","d","a","t","a","b","a","s","e">>,
    <<"r","e","m","o","t","e"," ","a","c","c","e","s","s">>>>

\* book_keywords (lines 927-955)
book_keywords == <<
    <<"b","o","o","k">>,
    <<"b","o","o","k","s">>,
    <<"t","e","x","t","b","o","o","k">>,
    <<"t","e","x","t","b","o","o","k","s">>,
    <<"r","e","f","e","r","e","n","c","e"," ","b","o","o","k">>,
    <<"a","u","t","h","o","r">>,
    <<"w","r","i","t","t","e","n"," ","b","y">>,
    <<"b","o","o","k"," ","b","y">>,
    <<"b","o","o","k","s"," ","b","y">>,
    <<"a","u","t","h","o","r",":">>,
    <<"b","y"," ","a","u","t","h","o","r">>,
    <<"t","i","t","l","e">>,
    <<"e","d","i","t","i","o","n">>,
    <<"v","o","l","u","m","e">>,
    <<"v","o","l">>,
    <<"p","u","b","l","i","c","a","t","i","o","n">>,
    <<"p","u","b","l","i","s","h","e","d">>,
    <<"i","s","b","n">>,
    <<"c","a","l","l"," ","n","u","m","b","e","r">>,
    <<"a","c","c","e","s","s","i","o","n">>,
    <<"a","c","c","e","s","s","i","o","n"," ","n","u","m","b","e","r">>,
    <<"c","a","t","a","l","o","g","u","e">>,
    <<"c","a","t","a","l","o","g">>,
    <<"c","l","a","s","s","i","f","i","c","a","t","i","o","n">>,
    <<"p","u","b","l","i","s","h","e","r">>,
    <<"c","o","v","e","r">>,
    <<"h","a","r","d","c","o","v","e","r">>,
    <<"p","a","p","e","r","b","a","c","k">>,
    <<"b","i","n","d","i","n","g">>,
    <<"f","i","n","d"," ","b","o","o","k">>,
    <<"s","e","a","r","c","h"," ","b","o","o","k">>,
    <<"l","o","o","k","i","n","g"," ","f","o","r"," ","b","o","o","k">>,
    <<"n","e","e","d"," ","b","o","o","k">>,
    <<"f","i","n","d"," ","b","o","o","k","s">>,
    <<"s","e","a","r","c","h"," ","b","o","o","k","s">>,
    <<"s","h","o","w"," ","m","e"," ","b","o","o","k","s">>,
    <<"b","o","o","k"," ","o","n">>,
    <<"b","o","o","k","s"," ","o","n">>,
    <<"b","o","o","k"," ","a","b","o","u","t">>,
    <<"b","o","o","k","s"," ","a","b","o","u","t">>,
    <<"t","e","x","t","b","o","o","k"," ","o","n">>,
    <<"r","e","f","e","r","e","n","c","e"," ","o","n">>,
    <<"a","v","a","i","l","a","b","l","e"," ","b","o","o","k">>,
    <<"b","o","o","k"," ","a","v","a","i","l","a","b","l","e">>,
    <<"i","n"," ","l","i","b","r","a","r","y">>,
    <<"l","i","b","r","a","r","y"," ","b","o","o","k">>,
    <<"l","i","b","r","a","r","y"," ","b","o","o","k","s">>>>

\* book_indicators (lines 964-969)
book_indicators == <<
    <<"b","o","o","k"," ","b","y">>,
    <<"b","o","o","k","s"," ","b","y">>,
    <<"a","u","t","h","o","r">>,
    <<"w","r","i","t","t","e","n"," ","b","y">>,
    <<"i","s","b","n">>,
    <<"c","a","l","l"," ","n","u","m","b","e","r">>,
    <<"a","c","c","e","s","s","i","o","n">>,
    <<"e","d","i","t","i","o","n">>,
    <<"p","u","b","l","i","c","a","t","i","o","n">>,
    <<"p","u","b","l","i","s","h","e","r">>,
    <<"t","e","x","t","b","o","o","k"," ","o","n">>,
    <<"r","e","f","e","r","e","n","c","e"," ","o","n">>,
    <<"f","i","n","d"," ","b","o","o","k">>,
    <<"s","e","a","r","c","h"," ","b","o","o","k">>>>

\* subject_patterns (lines 978-985)
subject_words == {<<"p","h","y","s","i","c","s">>, <<"c","h","e","m","i","s","t","r","y">>, <<"b","i","o","l","o","g","y">>, <<"m","a","t","h","e","m","a","t","i","c","s">>, <<"m","a","t","h">>, <<"c","o","m","p","u","t","e","r">>, <<"p","r","o","g","r","a","m","m","i","n","g">>, <<"c","o","d","i","n","g">>, <<"a","l","g","o","r","i","t","h","m">>, <<"d","a","t","a">>, <<"e","n","g","i","n","e","e","r","i","n","g">>, <<"m","e","c","h","a","n","i","c","a","l">>, <<"e","l","e","c","t","r","i","c","a","l">>, <<"c","i","v","i","l">>, <<"h","i","s","t","o","r","y">>, <<"g","e","o","g","r","a","p","h","y">>, <<"e","c","o","n","o","m","i","c","s">>, <<"s","o","c","i","o","l","o","g","y">>, <<"n","o","v","e","l">>, <<"f","i","c","t","i","o","n">>, <<"l","i","t","e","r","a","t","u","r","e">>, <<"p","o","e","t","r","y">>, <<"d","r","a","m","a">>, <<"p","s","y","c","h","o","l","o","g","y">>, <<"p","h","i","l","o","s","o","p","h","y">>, <<"a","n","t","h","r","o","p","o","l","o","g","y">>}

\* A classifier that tests the book rules before the general rules
classify_query_fallback_books_first(query) ==
    LET query_lower == Strip(Lower(query))
    IN  IF HasIsbn(query_lower) THEN "book"
        ELSE IF AnyIn(query_lower, book_keywords) THEN "book"
        ELSE IF AnyIn(query_lower, book_indicators) THEN "book"
        ELSE IF HasWord(query_lower, subject_words) THEN "book"
        ELSE IF AnyIn(query_lower, eresource_patterns) THEN "general"
        ELSE IF AnyIn(query_lower, general_keywords) THEN "general"
        ELSE IF Instructional(query_lower) THEN "general"
        ELSE "book"

\* classify_query_fallback(query) -> 'book' or 'general'
classify_query_fallback(query) ==
    LET query_lower == Strip(Lower(query))
    IN  IF HasIsbn(query_lower) THEN "book"
        ELSE IF AnyIn(query_lower, eresource_patterns) THEN "general"
        ELSE IF AnyIn(query_lower, general_keywords) THEN "general"
        ELSE IF Instructional(query_lower) THEN "general"
        ELSE IF AnyIn(query_lower, book_keywords) THEN "book"
        ELSE IF AnyIn(query_lower, book_indicators) THEN "book"
        ELSE IF HasWord(query_lower, subject_words) THEN "book"
        ELSE IF Len(Split(query_lower)) <= 3 /\ ~AnyIn(query_lower, general_keywords)
        THEN "book"
        ELSE "book"


\* @lru_cache: each query is classified by the keyword rules once
classify_query_fallback_table ==
    [q \in KnownQueries |-> classify_query_fallback(q)]

classify_query_fallback_cached(query) ==
    IF query \in KnownQueries THEN classify_query_fallback_table[query]
    ELSE classify_query_fallback(query)

(***************************************************************************)
(* Classification cache                                                    *)
(***************************************************************************)
CLASSIFICATION_CACHE_TTL == 7200

\* if len(classification_cache) > 500: remove the 100 oldest entries
CacheMaxEntries == 500
CacheEvictCount == 100

\* query_key = query.lower().strip()
CacheKey(query) == Strip(Lower(query))

CacheHas(cache, key) == \E i \in DOMAIN cache : cache[i].key = key
CacheIndex(cache, key) == CHOOSE i \in DOMAIN cache : cache[i].key = key

\* del d[key]: the other entries keep their order
RemoveAt(seq, S) ==
    LET kept == SelectSeq([i \in 1..Len(seq) |-> i], LAMBDA i : i \notin S)
    IN  [j \in 1..Len(kept) |-> seq[kept[j]]]

\* A lookup that never finds anything
get_cached_classification_miss(cache, query, t) ==
    [value |-> "", cache |-> cache, calls |-> <<"get_cached_classification">>]

\* A lookup that still accepts an entry of exactly the TTL
get_cached_classification_late(cache, query, t) ==
    LET query_key == CacheKey(query)
    IN  IF CacheHas(cache, query_key)
        THEN LET e == cache[CacheIndex(cache, query_key)]
             IN  IF t - e.timestamp <= CLASSIFICATION_CACHE_TTL
                 THEN [value |-> e.classification, cache |-> cache,
                       calls |-> <<"get_cached_classification">>]
                 ELSE [value |-> "",
                       cache |-> RemoveAt(cache, {CacheIndex(cache, query_key)}),
                       calls |-> <<"get_cached_classification",
                                   "del classification_cache[query_key]">>]
        ELSE [value |-> "", cache |-> cache,
              calls |-> <<"get_cached_classification">>]

\* get_cached_classification(query) at time t: the value returned ("" for
\* None), the cache it leaves and what it did
get_cached_classification(cache, query, t) ==
    LET query_key == CacheKey(query)
    IN  IF CacheHas(cache, query_key)
        THEN LET e == cache[CacheIndex(cache, query_key)]
             IN  IF t - e.timestamp < CLASSIFICATION_CACHE_TTL
                 THEN [value |-> e.classification, cache |-> cache,
                       calls |-> <<"get_cached_classification">>]
                 ELSE [value |-> "",
                       cache |-> RemoveAt(cache, {CacheIndex(cache, query_key)}),
                       calls |-> <<"get_cached_classification",
                                   "del classification_cache[query_key]">>]
        ELSE [value |-> "", cache |-> cache,
              calls |-> <<"get_cached_classification">>]

\* A clean-up that picks the n entries of the highest timestamps
NewestEntries(cache, n) ==
    {i \in DOMAIN cache :
        Cardinality({j \in DOMAIN cache :
            \/ cache[j].timestamp > cache[i].timestamp
            \/ (cache[j].timestamp = cache[i].timestamp /\ j > i)}) < n}

\* sorted(cache.items(), key=timestamp)[:n]: the positions of the n entries of
\* the lowest timestamps, the earlier position first among equal timestamps
OldestEntries(cache, n) ==
    {i \in DOMAIN cache :
        Cardinality({j \in DOMAIN cache :
            \/ cache[j].timestamp < cache[i].timestamp
            \/ (cache[j].timestamp = cache[i].timestamp /\ j < i)}) < n}

\* The clean-up of cache_classification once the size is over the limit
EvictOldest(cache) ==
    IF Len(cache) > CacheMaxEntries
    THEN RemoveAt(cache, OldestEntries(cache, CacheEvictCount))
    ELSE cache

\* classification_cache[query_key] = (classification, time.time()): a key
\* already present keeps its position in the dict
StoreEntry(cache, query_key, classification, t) ==
    LET e == [key |-> query_key, classification |-> classification, timestamp |-> t]
    IN  IF CacheHas(cache, query_key)
        THEN [cache EXCEPT ![CacheIndex(cache, query_key)] = e]
        ELSE Append(cache, e)

\* cache_classification(query, classification) at time t
cache_classification(cache, query, classification, t) ==
    EvictOldest(StoreEntry(cache, CacheKey(query), classification, t))

(***************************************************************************)
(* classify_query_with_llama                                               *)
(***************************************************************************)
\* os.getenv("FORCE_FALLBACK_CLASSIFICATION", "1") == "1"
FORCE_FALLBACK_CLASSIFICATION == TRUE
\* groq_client stays None unless NANDU_USE_GROQ=1 and a key is configured
groq_client == FALSE

\* What the parse of a reply of the external model yields: 'book', 'general',
\* or the fallback for an unclear reply or an exception
LlamaResult(query, reply) ==
    IF reply = "book" THEN "book"
    ELSE IF reply = "general" THEN "general"
    ELSE classify_query_fallback_cached(query)

\* classify_query_with_llama(query) at time t, `reply` being what the external
\* model would answer: the value returned, the cache left and the calls made
classify_query_with_llama(cache, query, t, reply) ==
    LET Classified(looked, result, how) ==
            [value |-> result,
             cache |-> cache_classification(looked.cache, query, result, t),
             calls |-> looked.calls \o <<how, "cache_classification">>]
        Looked(looked) ==
            IF looked.value # ""
            THEN [value |-> looked.value, cache |-> looked.cache, calls |-> looked.calls]
            ELSE IF FORCE_FALLBACK_CLASSIFICATION \/ ~groq_client
            THEN Classified(looked, classify_query_fallback_cached(query),
                            "classify_query_fallback")
            ELSE Classified(looked, LlamaResult(query, reply), "groq")
    IN  Looked(get_cached_classification(cache, query, t))

(***************************************************************************)
(* Rate limiter                                                            *)
(***************************************************************************)
\* @rate_limit(max_requests=20, window=60) on get_nandu_response
max_requests == 20
window == 60

\* _rate_limiter[client_id], an absent key reading as []
Timestamps(rl, client_id) == IF client_id \in DOMAIN rl THEN rl[client_id] ELSE <<>>

\* [ts for ts in _rate_limiter[client_id] if current_time - ts < window]
Pruned(rl, client_id, current_time) ==
    SelectSeq(Timestamps(rl, client_id), LAMBDA ts : current_time - ts < window)

\* A limiter that lets one request more through
LimitExceededLater(stamps) == Len(stamps) > max_requests

\* if len(_rate_limiter[client_id]) >= max_requests
LimitExceeded(stamps) == Len(stamps) >= max_requests

SetClient(rl, client_id, stamps) ==
    [c \in DOMAIN rl \cup {client_id} |-> IF c = client_id THEN stamps ELSE rl[c]]

\* The wrapper up to the call of the wrapped function: whether the request is
\* admitted, and _rate_limiter afterwards
rate_limit(rl, client_id, current_time) ==
    LET stamps == Pruned(rl, client_id, current_time)
    IN  IF LimitExceeded(stamps)
        THEN [admitted |-> FALSE, rl |-> SetClient(rl, client_id, stamps)]
        ELSE [admitted |-> TRUE,
              rl |-> SetClient(rl, client_id, Append(stamps, current_time))]

(***************************************************************************)
(* auto_correct_spelling                                                   *)
(***************************************************************************)
\* preserve_words (lines 483-487)
preserve_words == <<
    <<"t","i","m","i","n","g","s">>,
    <<"e","b","o","o","k","s">>,
    <<"e","r","e","s","o","u","r","c","e","s">>,
    <<"o","p","a","c">>,
    <<"s","c","o","p","u","s">>,
    <<"w","e","b","o","p","a","c">>,
    <<"v","p","n">>,
    <<"w","i","f","i">>,
    <<"t","e","c","h","n","o","b","o","o","t","h">>,
    <<"g","r","a","m","m","a","r","l","y">>,
    <<"t","u","r","n","i","t","i","n">>,
    <<"m","e","n","d","e","l","e","y">>,
    <<"z","o","t","e","r","o">>,
    <<"j","s","t","o","r">>,
    <<"p","h","d">>,
    <<"p","g">>,
    <<"u","g">>,
    <<"b","t","e","c","h">>,
    <<"m","t","e","c","h">>,
    <<"m","s","c">>,
    <<"b","s","c">>,
    <<"i","i","t">>,
    <<"r","o","p","a","r">>,
    <<"i","s","b","n">>,
    <<"d","o","i">>,
    <<"i","s","s","n">>>>

\* re.findall(r"[A-Za-z']+", s)
RECURSIVE TokensFrom(_, _, _)
TokensFrom(s, i, tok) ==
    IF i > Len(s)
    THEN IF tok = <<>> THEN {} ELSE {tok}
    ELSE IF IsAlpha(s[i]) \/ s[i] = "'"
         THEN TokensFrom(s, i + 1, Append(tok, s[i]))
         ELSE (IF tok = <<>> THEN {} ELSE {tok}) \cup TokensFrom(s, i + 1, <<>>)

Tokens(s) == TokensFrom(s, 1, <<>>)

Abs(n) == IF n < 0 THEN -n ELSE n

\* auto_correct_spelling(query): `corrected` is str(TextBlob(query).correct()),
\* author_tokens the lexicon read from the catalogue
auto_correct_spelling(query, corrected, author_tokens) ==
    LET query_lower == Lower(query)
        query_words == Split(query_lower)
        length_ok   == Abs(Len(corrected) - Len(query)) <= 3
        protected   == Tokens(query_lower) \cap author_tokens
    IN  IF query = <<>> THEN query
        ELSE IF \E k \in DOMAIN preserve_words : preserve_words[k] \in Range(query_words)
        THEN query
        ELSE IF /\ Lower(corrected) # Lower(query)
                /\ length_ok
                /\ protected \subseteq Tokens(Lower(corrected))
        THEN corrected
        ELSE query


\* The author column of the catalogue: "J. Smith", "Smith, John | Jones, K."
CatalogueAuthors == {<<"J","."," ","S","m","i","t","h">>, <<"S","m","i","t","h",","," ","J","o","h","n"," ","|"," ","J","o","n","e","s",","," ","K",".">>}

\* _author_token_lexicon(): the tokens of the catalogue's author column
author_token_lexicon ==
    UNION {{tok \in {Lower(DeleteChars(w, Punctuation)) :
                       w \in Range(Split([i \in DOMAIN a |->
                                IF a[i] \in {"|", "/"} THEN " " ELSE a[i]]))} :
              tok # <<>> /\ \A i \in DOMAIN tok : IsAlpha(tok[i])} : a \in CatalogueAuthors}

\* What str(TextBlob(query).correct()) may be: the query unchanged, or one of
\* CorrectedTexts
CorrectionChoices == {<<>>} \cup CorrectedTexts
TextBlobCorrect(query, choice) == IF choice = <<>> THEN query ELSE choice

\* auto_correct_spelling for each query that passes validation and each
\* correction of it, computed once
auto_correct_spelling_cached ==
    [p \in {Strip(q) : q \in QueryPool \ {LongQuery}} \X CorrectionChoices |->
        auto_correct_spelling(p[1], TextBlobCorrect(p[1], p[2]), author_token_lexicon)]

(***************************************************************************)
(* Audit log and error tracker                                             *)
(***************************************************************************)
Take(s, n) == SubSeq(s, 1, IF Len(s) < n THEN Len(s) ELSE n)

\* client_ip[:10] + "***" if client_ip != "default" else "default"
Anonymized(client_ip) ==
    IF client_ip = <<"d","e","f","a","u","l","t">> THEN client_ip
    ELSE Take(client_ip, 10) \o <<"*","*","*">>

\* The line audit_log_query appends (its timestamp and processing time, which
\* no modelled behaviour depends on, are left out)
AuditEntry(query, text, client_ip, success) ==
    [query |-> Take(query, 100), response |-> text, response_length |-> Len(text),
     client_ip |-> Anonymized(client_ip), success |-> success]

\* track_error(error, context) at time t
track_error(tracker, error, context, t) ==
    LET recent  == Append(tracker.recent_errors,
                          [error |-> error, context |-> context, timestamp |-> t])
        last10  == SubSeq(recent, IF Len(recent) > 10 THEN Len(recent) - 9 ELSE 1,
                          Len(recent))
        counted == tracker.count + 1
    IN  IF t - tracker.last_reset > 3600
        THEN [count |-> 0, last_reset |-> t, recent_errors |-> last10]
        ELSE [count |-> counted, last_reset |-> tracker.last_reset,
              recent_errors |-> last10]

(***************************************************************************)
(* get_nandu_response                                                      *)
(***************************************************************************)
\* statistics_patterns (lines 1891-1897)
statistics_patterns == <<
    <<"t","o","t","a","l"," ","b","o","o","k","s"," ","i","n"," ","l","i","b","r","a","r","y">>,
    <<"n","u","m","b","e","r"," ","o","f"," ","b","o","o","k","s"," ","i","n"," ","l","i","b","r","a","r","y">>,
    <<"h","o","w"," ","m","a","n","y"," ","b","o","o","k","s"," ","i","n"," ","l","i","b","r","a","r","y">>,
    <<"h","o","w"," ","m","a","n","y"," ","b","o","o","k","s"," ","d","o","e","s"," ","l","i","b","r","a","r","y"," ","h","a","v","e">>,
    <<"h","o","w"," ","m","a","n","y"," ","b","o","o","k","s"," ","l","i","b","r","a","r","y"," ","h","a","v","e">>,
    <<"b","o","o","k","s"," ","i","n"," ","l","i","b","r","a","r","y">>,
    <<"l","i","b","r","a","r","y"," ","c","o","l","l","e","c","t","i","o","n">>,
    <<"c","o","l","l","e","c","t","i","o","n"," ","s","i","z","e">>,
    <<"t","o","t","a","l"," ","c","o","l","l","e","c","t","i","o","n">>,
    <<"l","i","b","r","a","r","y"," ","h","a","s"," ","h","o","w"," ","m","a","n","y">>,
    <<"s","i","z","e"," ","o","f"," ","l","i","b","r","a","r","y">>>>

\* borrowing_patterns (lines 1900-1908)
borrowing_patterns == <<
    <<"s","t","u","d","e","n","t","s"," ","g","e","t">>,
    <<"s","t","u","d","e","n","t","s"," ","b","o","r","r","o","w">>,
    <<"s","t","u","d","e","n","t","s"," ","c","a","n"," ","b","o","r","r","o","w">>,
    <<"s","t","u","d","e","n","t","s"," ","c","a","n"," ","g","e","t">>,
    <<"s","t","u","d","e","n","t","s"," ","i","s","s","u","e">>,
    <<"s","t","u","d","e","n","t","s"," ","c","a","n"," ","i","s","s","u","e">>,
    <<"c","a","n"," ","i"," ","b","o","r","r","o","w">>,
    <<"c","a","n"," ","i"," ","g","e","t">>,
    <<"c","a","n"," ","i"," ","i","s","s","u","e">>,
    <<"a","l","l","o","w","e","d"," ","t","o"," ","b","o","r","r","o","w">>,
    <<"a","l","l","o","w","e","d"," ","t","o"," ","g","e","t">>,
    <<"b","o","r","r","o","w"," ","l","i","m","i","t">>,
    <<"i","s","s","u","e"," ","l","i","m","i","t">>,
    <<"b","o","r","r","o","w","i","n","g"," ","l","i","m","i","t">>,
    <<"i","s","s","u","i","n","g"," ","l","i","m","i","t">>,
    <<"u","g"," ","s","t","u","d","e","n","t","s">>,
    <<"p","g"," ","s","t","u","d","e","n","t","s">>,
    <<"p","h","d"," ","s","t","u","d","e","n","t","s">>,
    <<"f","a","c","u","l","t","y"," ","g","e","t">>,
    <<"s","t","a","f","f"," ","g","e","t">>,
    <<"p","r","o","f","e","s","s","o","r"," ","g","e","t">>>>

\* The texts returned (without their emoji and markdown)
MSG_EMPTY           == "Please enter a query."
MSG_TOO_LONG        == "Query too long. Please keep your question under 300 characters."
MSG_RATE_LIMIT      == "Too many requests. Please wait 60 seconds and try again."
MSG_STATS           == "Here's what I found: Library Collection Statistics"
MSG_STATS_NONE      == "I couldn't retrieve the library statistics at this time. Please try again later."
MSG_LIBRARY_NONE    == "I couldn't find specific information about that."
MSG_LIBRARY_ERROR   == "Sorry, I encountered an error processing your query. Please try again."
MSG_WEBSITE_ANSWER  == "(answer from the website)"
MSG_WEBSITE_NONE    == "I couldn't find this information on the website."
MSG_WEBSITE_ERROR   == "Sorry, I encountered an error searching the website. Please try again."
MSG_GENERAL_WEBSITE == "From the Library Website:"
MSG_GENERAL_NONE    == "I don't have specific information about that right now."
MSG_GENERAL_ERROR   == "Sorry, I encountered an error processing your query. Please try again."
MSG_BOOKS           == "I found books in our library:"
MSG_BOOKS_NONE      == "I couldn't find any books matching your query in our catalogue."
MSG_BOOKS_ERROR     == "Sorry, I encountered an error searching for books. Please try again or contact the library helpdesk for assistance."
MSG_CRITICAL        == "Sorry, I encountered an unexpected error. Please try again or contact support if the problem persists."
NO_RESPONSE         == "no_response"

StrResponse(text) == [error |-> "", text |-> text, retry_after |-> 0]
RateLimitResponse ==
    [error |-> "rate_limit_exceeded", text |-> MSG_RATE_LIMIT, retry_after |-> window]

\* The prefix put before an answer of the library path (lines 1949-1958)
LibraryPrefix(query_lower) ==
    IF AnyIn(query_lower, <<<<"t","i","m","i","n","g">>, <<"h","o","u","r","s">>, <<"o","p","e","n">>, <<"w","h","e","n">>>>)
    THEN "Library Hours:"
    ELSE IF AnyIn(query_lower, <<<<"f","i","n","e">>, <<"p","e","n","a","l","t","y">>, <<"f","e","e">>>>)
    THEN "Fine Policy:"
    ELSE IF AnyIn(query_lower, <<<<"b","o","r","r","o","w">>, <<"i","s","s","u","e">>, <<"h","o","w"," ","m","a","n","y">>>>)
    THEN "Borrowing Information:"
    ELSE IF AnyIn(query_lower, <<<<"s","e","a","r","c","h">>, <<"f","i","n","d">>, <<"o","p","a","c">>>>)
    THEN "How to Search:"
    ELSE "Here's what I found:"

\* The prefix put before an answer of the general path (lines 1998-2011)
GeneralPrefix(query_lower) ==
    IF AnyIn(query_lower, <<<<"t","i","m","i","n","g">>, <<"h","o","u","r","s">>, <<"o","p","e","n">>, <<"w","h","e","n">>, <<"s","c","h","e","d","u","l","e">>>>)
    THEN "Library Hours:"
    ELSE IF AnyIn(query_lower, <<<<"f","i","n","e">>, <<"p","e","n","a","l","t","y">>, <<"f","e","e">>, <<"l","a","t","e">>>>)
    THEN "About Fines:"
    ELSE IF AnyIn(query_lower, <<<<"b","o","r","r","o","w">>, <<"i","s","s","u","e">>, <<"h","o","w"," ","m","a","n","y">>, <<"l","i","m","i","t">>>>)
    THEN "Borrowing Guidelines:"
    ELSE IF AnyIn(query_lower, <<<<"s","e","a","r","c","h">>, <<"f","i","n","d">>, <<"o","p","a","c">>, <<"c","a","t","a","l","o","g","u","e">>>>)
    THEN "Searching for Books:"
    ELSE IF AnyIn(query_lower, <<<<"m","e","m","b","e","r","s","h","i","p">>, <<"j","o","i","n">>, <<"r","e","g","i","s","t","e","r">>>>)
    THEN "Membership Information:"
    ELSE IF AnyIn(query_lower, <<<<"c","o","n","t","a","c","t">>, <<"e","m","a","i","l">>, <<"p","h","o","n","e">>, <<"r","e","a","c","h">>>>)
    THEN "Contact Information:"
    ELSE "Here's the information:"

\* is_statistics_query (lines 1911-1914)
IsStatisticsQuery(query_lower) ==
    AnyIn(query_lower, statistics_patterns) /\ ~AnyIn(query_lower, borrowing_patterns)

\* The three functions above for each query, computed once
IsStatisticsQueryOf == [q \in KnownQueries |-> IsStatisticsQuery(Lower(q))]
LibraryPrefixOf == [q \in KnownQueries |-> LibraryPrefix(Lower(q))]
GeneralPrefixOf == [q \in KnownQueries |-> GeneralPrefix(Lower(q))]

\* Step 4 for query_type 'library': what the collaborators did is in env
LibraryPath(query, env) ==
    [calls |-> <<"get_general_answer">>,
     text |-> IF env.general = "found" THEN LibraryPrefixOf[query]
              ELSE IF env.general = "none" THEN MSG_LIBRARY_NONE
              ELSE MSG_LIBRARY_ERROR,
     local |-> "", success |-> TRUE, tracked |-> <<>>]

\* Step 4 for query_type 'website'
WebsitePath(query, env) ==
    [calls |-> IF env.website \in {"found", "none"}
               THEN <<"fetch_website_content", "search_website_content">>
               ELSE <<"fetch_website_content">>,
     text |-> IF env.website = "found" THEN MSG_WEBSITE_ANSWER
              ELSE IF env.website = "raises" THEN MSG_WEBSITE_ERROR
              ELSE MSG_WEBSITE_NONE,
     local |-> "", success |-> TRUE, tracked |-> <<>>]

\* Step 4 for query_type 'general': the Q&A table, then the website, then the
\* fallback message
GeneralPath(query, env) ==
    IF env.general = "found"
    THEN [calls |-> <<"get_general_answer">>, text |-> GeneralPrefixOf[query],
          local |-> "", success |-> TRUE, tracked |-> <<>>]
    ELSE IF env.general = "raises"
    THEN [calls |-> <<"get_general_answer">>, text |-> MSG_GENERAL_ERROR,
          local |-> "", success |-> TRUE, tracked |-> <<>>]
    ELSE [calls |-> <<"get_general_answer">> \o WebsitePath(query, env).calls,
          text |-> IF env.website = "found" THEN MSG_GENERAL_WEBSITE
                   ELSE IF env.website = "raises" THEN MSG_GENERAL_ERROR
                   ELSE MSG_GENERAL_NONE,
          local |-> "", success |-> TRUE, tracked |-> <<>>]

\* Step 4 for query_type 'book'; only its except clause sets the locals
\* `response` and `success` and tracks the error
BookPath(query, env) ==
    IF env.books = "found"
    THEN [calls |-> <<"normalize_book_query", "hybrid_book_search", "format_results">>,
          text |-> MSG_BOOKS, local |-> "", success |-> TRUE, tracked |-> <<>>]
    ELSE IF env.books = "none"
    THEN [calls |-> <<"normalize_book_query", "hybrid_book_search">>,
          text |-> MSG_BOOKS_NONE, local |-> "", success |-> TRUE, tracked |-> <<>>]
    ELSE [calls |-> <<"normalize_book_query", "hybrid_book_search">>,
          text |-> MSG_BOOKS_ERROR, local |-> MSG_BOOKS_ERROR, success |-> FALSE,
          tracked |-> <<"get_nandu_response:book_query">>]

\* A routing that asks the classifier in every mode
QueryTypeClassified(cache, query, search_mode, t, env) ==
    [classify_query_with_llama(cache, query, t, env.llama)
       EXCEPT !.calls = <<"classify_query_with_llama">> \o @]

\* Step 3: query_type from search_mode, or from the classifier in auto mode
QueryType(cache, query, search_mode, t, env) ==
    IF search_mode = "books"
    THEN [value |-> "book", cache |-> cache, calls |-> <<>>]
    ELSE IF search_mode = "library"
    THEN [value |-> "library", cache |-> cache, calls |-> <<>>]
    ELSE IF search_mode = "website"
    THEN [value |-> "website", cache |-> cache, calls |-> <<>>]
    ELSE [classify_query_with_llama(cache, query, t, env.llama)
            EXCEPT !.calls = <<"classify_query_with_llama">> \o @]

RECURSIVE TrackAll(_, _, _)
TrackAll(tracker, contexts, t) ==
    IF contexts = <<>> THEN tracker
    ELSE TrackAll(track_error(tracker, "Exception", Head(contexts), t), Tail(contexts), t)

\* The try block of get_nandu_response and its finally clause, for a query
\* that passed validation
Answer(original_query, query, search_mode, client_ip, env, cache, tracker, t) ==
    LET Answered(qt, path) ==
            [response |-> StrResponse(path.text),
             audits |-> <<AuditEntry(original_query,
                                     IF path.local # "" THEN path.local ELSE NO_RESPONSE,
                                     client_ip, path.success)>>,
             calls |-> qt.calls \o path.calls,
             cache |-> qt.cache,
             tracker |-> TrackAll(tracker, path.tracked, t)]
        Routed(qt) ==
            Answered(qt, IF qt.value = "library" THEN LibraryPath(query, env)
                         ELSE IF qt.value = "website" THEN WebsitePath(query, env)
                         ELSE IF qt.value = "general" THEN GeneralPath(query, env)
                         ELSE BookPath(query, env))
    IN  IF IsStatisticsQueryOf[query]
        THEN [response |-> StrResponse(IF env.stats = "ok" THEN MSG_STATS ELSE MSG_STATS_NONE),
              audits |-> <<AuditEntry(original_query, NO_RESPONSE, client_ip, TRUE)>>,
              calls |-> <<"get_library_statistics">>,
              cache |-> cache, tracker |-> tracker]
        ELSE Routed(QueryType(cache, query, search_mode, t, env))

\* A get_nandu_response that answers without validating the query
get_nandu_response_unvalidated(q, search_mode, client_ip, env, cache, tracker, t) ==
    IF q = <<>>
    THEN [response |-> StrResponse(MSG_EMPTY), audits |-> <<>>, calls |-> <<>>,
          cache |-> cache, tracker |-> tracker]
    ELSE IF Len(q) > 300
    THEN [response |-> StrResponse(MSG_TOO_LONG),
          audits |-> <<AuditEntry(Take(q, 100), MSG_TOO_LONG, client_ip, FALSE)>>,
          calls |-> <<>>, cache |-> cache, tracker |-> tracker]
    ELSE [Answer(Strip(q),
                 Strip(auto_correct_spelling_cached[<<Strip(q), env.corrected>>]),
                 search_mode, client_ip, env, cache, tracker, t)
            EXCEPT !.calls = <<"is_valid_query", "auto_correct_spelling">> \o @]

\* get_nandu_response(q, search_mode, client_ip) at time t: the value returned,
\* the lines appended to the audit log, the calls made, and the cache and
\* error tracker it leaves
get_nandu_response(q, search_mode, client_ip, env, cache, tracker, t) ==
    LET Validated(original_query, valid) ==
            IF ~valid[1]
            THEN [response |-> StrResponse(valid[2]),
                  audits |-> <<AuditEntry(original_query, valid[2], client_ip, FALSE)>>,
                  calls |-> <<"is_valid_query">>, cache |-> cache, tracker |-> tracker]
            ELSE [Answer(original_query,
                         Strip(auto_correct_spelling_cached[<<original_query,
                                                              env.corrected>>]),
                         search_mode, client_ip, env, cache, tracker, t)
                    EXCEPT !.calls = <<"is_valid_query", "auto_correct_spelling">> \o @]
        Stripped(original_query) ==
            Validated(original_query, is_valid_query_cached[original_query])
    IN  IF q = <<>>
        THEN [response |-> StrResponse(MSG_EMPTY), audits |-> <<>>, calls |-> <<>>,
              cache |-> cache, tracker |-> tracker]
        ELSE IF Len(q) > 300
        THEN [response |-> StrResponse(MSG_TOO_LONG),
              audits |-> <<AuditEntry(Take(q, 100), MSG_TOO_LONG, client_ip, FALSE)>>,
              calls |-> <<>>, cache |-> cache, tracker |-> tracker]
        ELSE Stripped(Strip(q))


(***************************************************************************)
(* merge_duplicates                                                        *)
(***************************************************************************)
\* normalize_title: strip, lower, drop punctuation, collapse whitespace
normalize_title(s) ==
    JoinSpace(Split(DeleteChars(Lower(Strip(s)), Punctuation)))

\* The "Last, First" branch of canonical_author_key: the key is taken from
\* `primary` itself, split at its commas.
CommaAuthorKey(primary) ==
    LET last  == Lower(Strip(BeforeFirst(primary, ",")))
        after == Strip(BeforeFirst(AfterFirst(primary, ","), ","))
        first_initial == IF after # <<>> THEN <<LowerChar(after[1])>> ELSE <<>>
    IN  last \o <<"|">> \o first_initial

\* The "First Middle Last" branch: the key is taken from the words of the
\* punctuation-free text.
WordsAuthorKey(parts) ==
    LET last  == Lower(parts[Len(parts)])
        first == parts[1]
        first_initial == IF first # <<>> THEN <<LowerChar(first[1])>> ELSE <<>>
    IN  last \o <<"|">> \o first_initial

\* canonical_author_key: 'lastname|firstinitial' of the primary author
canonical_author_key(author_raw) ==
    LET a == Strip(author_raw)
        primary == Strip(BeforeFirst(BeforeFirst(a, "|"), ";"))
        p == DeleteChars(primary, Punctuation \ {"'"})
        parts == Split(p)
    IN  IF a = <<>> THEN <<>>
        ELSE IF parts = <<>> THEN <<>>
        ELSE IF "," \in Range(primary) THEN CommaAuthorKey(primary)
        ELSE WordsAuthorKey(parts)

\* key = (title_key, author_key)
GroupKey(title, author) == <<normalize_title(title), canonical_author_key(author)>>

HasKey(dict, key) == \E i \in DOMAIN dict : dict[i].key = key
IndexOfKey(dict, key) == CHOOSE i \in DOMAIN dict : dict[i].key = key

\* groups[key] = {...} for a key seen for the first time
NewGroup(key, title, author, isbn, publisher, year) ==
    [key |-> key, Title |-> title, Author |-> author, ISBN |-> isbn,
     Publisher |-> publisher, Year |-> year, copies |-> 0,
     accessions |-> <<>>, call_numbers |-> <<>>, editions |-> <<>>, eds |-> {}]

\* The updates of one record on its group g
AddToGroup(g, isbn, accession, call_no, publisher, year) ==
    [g EXCEPT
       !.copies = @ + 1,
       !.accessions = IF accession # <<>> /\ accession \notin Range(@)
                      THEN Append(@, accession) ELSE @,
       !.call_numbers = IF call_no # <<>> /\ call_no \notin Range(@)
                        THEN Append(@, call_no) ELSE @,
       !.eds = @ \cup {<<Strip(publisher), Strip(year)>>},
       !.ISBN = IF @ = <<>> /\ isbn # <<>> THEN isbn ELSE @]

\* MergeItem with the lenient grouping the strict rule replaced: a record
\* without an author joins a group of the same title when there is one.
MergeItemLenient(dict, item) ==
    LET title     == Strip(item.Title)
        author    == Strip(item.Author)
        isbn      == Strip(item.ISBN)
        accession == Strip(item.Barcode)
        call_no   == Strip(item.CallNo)
        strict    == GroupKey(title, author)
        sameTitle == {i \in DOMAIN dict : dict[i].key[1] = strict[1]}
        key       == IF strict[2] = <<>> /\ sameTitle # {}
                     THEN dict[CHOOSE i \in sameTitle : \A j \in sameTitle : i <= j].key
                     ELSE strict
        withKey   == IF HasKey(dict, key) THEN dict
                     ELSE Append(dict, NewGroup(key, title, author, isbn,
                                                item.Publisher, item.Year))
        i         == IndexOfKey(withKey, key)
    IN  IF title = <<>> THEN dict
        ELSE [withKey EXCEPT ![i] = AddToGroup(@, isbn, accession, call_no,
                                               item.Publisher, item.Year)]

\* One iteration of the loop over results
MergeItem(dict, item) ==
    LET title     == Strip(item.Title)
        author    == Strip(item.Author)
        isbn      == Strip(item.ISBN)
        accession == Strip(item.Barcode)
        call_no   == Strip(item.CallNo)
        key       == GroupKey(title, author)
        withKey   == IF HasKey(dict, key) THEN dict
                     ELSE Append(dict, NewGroup(key, title, author, isbn,
                                                item.Publisher, item.Year))
        i         == IndexOfKey(withKey, key)
    IN  IF title = <<>> THEN dict
        ELSE [withKey EXCEPT ![i] = AddToGroup(@, isbn, accession, call_no,
                                               item.Publisher, item.Year)]

RECURSIVE MergeLoop(_, _)
MergeLoop(dict, items) ==
    IF items = <<>> THEN dict
    ELSE MergeLoop(MergeItem(dict, Head(items)), Tail(items))

\* sorted(editions_map[key]): tuples in lexicographic order
PairLess(x, y) == StrLess(x[1], y[1]) \/ (x[1] = y[1] /\ StrLess(x[2], y[2]))

RECURSIVE SortedPairs(_)
SortedPairs(S) ==
    IF S = {} THEN <<>>
    ELSE LET m == CHOOSE x \in S : \A y \in S \ {x} : PairLess(x, y)
         IN  <<m>> \o SortedPairs(S \ {m})

NanStrings == {<<"n","a","n">>, <<"N","a","N">>}
Blanked(v) == IF v \in NanStrings THEN <<>> ELSE v

\* Counter(values).most_common(1)[0][0]: the first value of the highest count
Count(seq, v) == Cardinality({i \in DOMAIN seq : seq[i] = v})
MostCommon(seq) ==
    seq[CHOOSE i \in DOMAIN seq :
          /\ \A j \in DOMAIN seq : Count(seq, seq[j]) <= Count(seq, seq[i])
          /\ \A j \in 1..(i - 1) : Count(seq, seq[j]) < Count(seq, seq[i])]

\* The finalisation of one group: its editions and representative values
Finalize(g) ==
    LET sorted == SortedPairs(g.eds)
        eds == [i \in DOMAIN sorted |->
                  [Publisher |-> Blanked(sorted[i][1]), Year |-> Blanked(sorted[i][2])]]
        pubs == SelectSeq([i \in DOMAIN eds |-> eds[i].Publisher], LAMBDA v : v # <<>>)
        yrs  == SelectSeq([i \in DOMAIN eds |-> eds[i].Year], LAMBDA v : v # <<>>)
    IN  [g EXCEPT !.editions = eds,
                  !.Publisher = IF pubs # <<>> THEN MostCommon(pubs) ELSE @,
                  !.Year = IF yrs # <<>> THEN MostCommon(yrs) ELSE @]

\* merge_duplicates(results): the dict `groups` at the return, in insertion
\* order; the function returns list(groups.values())
merge_duplicates(items) ==
    LET dict == MergeLoop(<<>>, items)
    IN  [i \in DOMAIN dict |-> Finalize(dict[i])]

(***************************************************************************)
(* Inputs of merge_duplicates                                              *)
(***************************************************************************)
MaxRecords == 2

\* Author fields as a catalogue holds them, each with the people it can
\* name (an initial stands for every first name that starts with it):
\* "", "J. Smith", "John Smith", "Smith, J.", "James Smith", "K. Jones",
\* "J. Smith-Jones", "Smith-Jones, J." and "; Smith".
AuthorPool == {
    [text |-> <<>>,
     persons |-> {}],
    [text |-> <<"J","."," ","S","m","i","t","h">>,
     persons |-> {"john_smith", "james_smith"}],
    [text |-> <<"J","o","h","n"," ","S","m","i","t","h">>,
     persons |-> {"john_smith"}],
    [text |-> <<"S","m","i","t","h",","," ","J",".">>,
     persons |-> {"john_smith", "james_smith"}],
    [text |-> <<"J","a","m","e","s"," ","S","m","i","t","h">>,
     persons |-> {"james_smith"}],
    [text |-> <<"K","."," ","J","o","n","e","s">>,
     persons |-> {"k_jones"}],
    [text |-> <<"J","."," ","S","m","i","t","h","-","J","o","n","e","s">>,
     persons |-> {"j_smith_jones"}],
    [text |-> <<"S","m","i","t","h","-","J","o","n","e","s",","," ","J",".">>,
     persons |-> {"j_smith_jones"}],
    [text |-> <<";"," ","S","m","i","t","h">>,
     persons |-> {"x_smith"}]}

\* "Foo", " foo!", "Bar" and the missing title
TitlePool == {<<"F","o","o">>, <<" ","f","o","o","!">>, <<"B","a","r">>, <<>>}

\* The other columns of the rows a search returns, by position in the list:
\* the third row is the first one again (the same accession number), as when
\* two retrievers return the same row
CopyRows == <<
    [ISBN |-> <<>>, Barcode |-> <<"B","1">>, CallNo |-> <<"C","1">>,
     Publisher |-> <<"P","1">>, Year |-> <<"2","0","0","1">>],
    [ISBN |-> <<"I","2">>, Barcode |-> <<"B","2">>, CallNo |-> <<"C","1">>,
     Publisher |-> <<"n","a","n">>, Year |-> <<"2","0","0","2">>],
    [ISBN |-> <<>>, Barcode |-> <<"B","1">>, CallNo |-> <<"C","1">>,
     Publisher |-> <<"P","1">>, Year |-> <<"2","0","0","1">>]>>

CopyRow(i) == CopyRows[((i - 1) % Len(CopyRows)) + 1]

BookRecord(t, a, c) ==
    [Title |-> t, Author |-> a, ISBN |-> c.ISBN, Barcode |-> c.Barcode,
     CallNo |-> c.CallNo, Publisher |-> c.Publisher, Year |-> c.Year]

AuthorTexts == {a.text : a \in AuthorPool}

RecordLists ==
    {[i \in DOMAIN ta |-> BookRecord(ta[i][1], ta[i][2], CopyRow(i))] :
        ta \in UNION {[1..n -> TitlePool \X AuthorTexts] : n \in 0..MaxRecords}}

Orderings(n) ==
    {p \in [1..n -> 1..n] : \A i, j \in 1..n : p[i] = p[j] => i = j}

(***************************************************************************)
(* State of the module after import                                        *)
(***************************************************************************)
\* A call of function `op` and its arguments; `corrected` is what the
\* spelling corrector made of the query during the call
Call(op, q, search_mode, client_ip, corrected) ==
    [op |-> op, q |-> q, search_mode |-> search_mode, client_ip |-> client_ip,
     corrected |-> corrected]

NoCall == Call("", <<>>, "", <<>>, <<>>)

ServiceInit ==
    /\ now = 0
    /\ rate_limiter = <<>>
    /\ classification_cache = <<>>
    /\ audit_log = <<>>
    /\ calls = <<>>
    /\ response = StrResponse("")
    /\ error_tracker = [count |-> 0, last_reset |-> 0, recent_errors |-> <<>>]
    /\ ncalls = 0
    /\ request = NoCall
    /\ query_type = ""

NoMerge ==
    /\ results = <<>>
    /\ groups = <<>>
    /\ merged = FALSE
    /\ prev_groups = <<>>
    /\ reordered = FALSE

\* The threads that call the loaders of the two FAISS indexes, none of them
\* inside a loader yet, and nothing loaded (lines 1603-1605, 1658-1659)
LoaderThreads == {"t1", "t2", "t3"}
Resources == {"catalogue", "general"}
IdleLoader ==
    [pc |-> "idle", resource |-> "", polls |-> 0, ncalls |-> 0, outcome |-> "",
     result |-> ""]

NoLoaders ==
    /\ faiss_cache = [r \in Resources |-> {}]
    /\ faiss_loading = [r \in Resources |-> FALSE]
    /\ loader = [t \in LoaderThreads |-> IdleLoader]

\* The threads that serve requests through the rate-limit wrapper, none of
\* them inside the wrapper yet
WorkerThreads == {"w1", "w2"}
IdleWorker == [pc |-> "idle", client_id |-> "", current_time |-> 0, pruned |-> <<>>]

NoWorkers ==
    /\ worker = [w \in WorkerThreads |-> IdleWorker]
    /\ admitted = <<>>

\* No pure function has been applied
NotApplied == [done |-> FALSE, value |-> <<>>]
Returned(value) == [done |-> TRUE, value |-> value]

NoFunction ==
    /\ fn_call = [op |-> "", args |-> <<>>]
    /\ fn_result = NotApplied

\* The settings of a default installation (NANDU_WEBSCRAPE unset, line 117),
\* no website cache yet, general_queries.json in place
DefaultSite ==
    [NANDU_WEBSCRAPE |-> FALSE, HAS_BS4 |-> TRUE, website_cache |-> "absent",
     general_queries |-> "readable"]

\* The threads that use the classification cache, none of them inside one of
\* its two functions yet
ClassifierThreads == {"c1", "c2"}
IdleClassifier ==
    [pc |-> "idle", query_key |-> <<>>,
     entry |-> [key |-> <<>>, classification |-> "", timestamp |-> 0],
     sorted_cache |-> <<>>, ncalls |-> 0, outcome |-> ""]
NoClassifiers == classifier = [t \in ClassifierThreads |-> IdleClassifier]

NoThreads ==
    /\ NoLoaders /\ NoWorkers /\ NoFunction /\ admin_log = <<>> /\ site = DefaultSite
    /\ NoClassifiers

Init == ServiceInit /\ NoMerge /\ NoThreads

\* The clock moves on
Tick(step) ==
    /\ now' = now + step
    /\ UNCHANGED <<rate_limiter, classification_cache, audit_log, calls, response,
                   error_tracker, ncalls, request, query_type>>
    /\ UNCHANGED mergeVars
    /\ UNCHANGED threadVars

(***************************************************************************)
(* Requests: get_nandu_response behind its rate-limit wrapper              *)
(***************************************************************************)
\* What the collaborators do during one request: the statistics query, the
\* Q&A resolver, the website search and the hybrid book search
Scenarios == {
    [stats |-> "ok",   general |-> "found",  website |-> "found",  books |-> "found"],
    [stats |-> "none", general |-> "none",   website |-> "found",  books |-> "none"],
    [stats |-> "ok",   general |-> "none",   website |-> "none",   books |-> "raises"],
    [stats |-> "ok",   general |-> "none",   website |-> "nodata", books |-> "none"],
    [stats |-> "ok",   general |-> "raises", website |-> "raises", books |-> "found"]}

\* No collaborator has anything to say
NoAnswers == [stats |-> "none", general |-> "none", website |-> "none", books |-> "none"]

Env(scenario, corrected) ==
    [stats |-> scenario.stats, general |-> scenario.general,
     website |-> scenario.website, books |-> scenario.books,
     corrected |-> corrected,
     llama |-> "unclear"]

\* wrapper(q, search_mode=..., client_ip=...) at time `now`
wrapper(q, search_mode, client_ip, env) ==
    \E limit \in {rate_limit(rate_limiter, client_ip, now)} :
        /\ rate_limiter' = limit.rl
        /\ ncalls' = ncalls + 1
        /\ request' = Call("get_nandu_response", q, search_mode, client_ip,
                           env.corrected)
        /\ IF limit.admitted
           THEN \E r \in {get_nandu_response(q, search_mode, client_ip, env,
                                              classification_cache, error_tracker,
                                              now)} :
                    /\ response' = r.response
                    /\ calls' = <<"get_nandu_response">> \o r.calls
                    /\ audit_log' = audit_log \o r.audits
                    /\ classification_cache' = r.cache
                    /\ error_tracker' = r.tracker
           ELSE /\ response' = RateLimitResponse
                /\ calls' = <<>>
                /\ UNCHANGED <<audit_log, classification_cache, error_tracker>>
        /\ UNCHANGED <<now, query_type>>
        /\ UNCHANGED mergeVars

\* The call in an installation whose files the call leaves as they are
GetNanduResponse(q, search_mode, client_ip, env) ==
    /\ wrapper(q, search_mode, client_ip, env)
    /\ UNCHANGED threadVars

\* A request of the API server
Request ==
    /\ ncalls < MaxCalls
    /\ \E q \in QueryPool :
       \E corrected \in CorrectionChoices :
       \E search_mode \in SearchModes :
       \E client_ip \in ApiClients :
       \E scenario \in Scenarios :
          GetNanduResponse(q, search_mode, client_ip, Env(scenario, corrected))

TimePasses ==
    /\ now + TickStep <= MaxTime
    /\ Tick(TickStep)

Next == Request \/ TimePasses

Spec == Init /\ [][Next]_vars

(***************************************************************************)
(* Specification of the rate limiter: two clients send requests (empty     *)
(* queries, which get_nandu_response answers at once) while 30-second      *)
(* steps of the clock go by.                                               *)
(***************************************************************************)
RateRequest ==
    /\ ncalls < MaxRateCalls
    /\ \E client_ip \in ClientPool :
          GetNanduResponse(<<>>, "auto", client_ip, Env(NoAnswers, <<>>))

RateTimePasses ==
    /\ now + RateTick <= MaxRateTime
    /\ Tick(RateTick)

NextRate == RateRequest \/ RateTimePasses

SpecRate == Init /\ [][NextRate]_vars

(***************************************************************************)
(* Specification of the classification cache: callers classify queries and *)
(* look the cache up while hours go by.                                    *)
(***************************************************************************)
\* classify_query_with_llama(query) at time `now`
ClassifyQuery(query) ==
    \E r \in {classify_query_with_llama(classification_cache, query, now, "unclear")} :
        /\ query_type' = r.value
        /\ classification_cache' = r.cache
        /\ calls' = <<"classify_query_with_llama">> \o r.calls
        /\ request' = Call("classify_query_with_llama", query, "", <<>>, <<>>)
        /\ ncalls' = ncalls + 1
        /\ UNCHANGED <<now, rate_limiter, audit_log, response, error_tracker>>
        /\ UNCHANGED mergeVars
        /\ UNCHANGED threadVars

\* get_cached_classification(query) at time `now`
LookupQuery(query) ==
    \E r \in {get_cached_classification(classification_cache, query, now)} :
        /\ query_type' = r.value
        /\ classification_cache' = r.cache
        /\ calls' = r.calls
        /\ request' = Call("get_cached_classification", query, "", <<>>, <<>>)
        /\ ncalls' = ncalls + 1
        /\ UNCHANGED <<now, rate_limiter, audit_log, response, error_tracker>>
        /\ UNCHANGED mergeVars
        /\ UNCHANGED threadVars

Classify ==
    /\ ncalls < MaxCacheCalls
    /\ \E query \in ClassifyPool : ClassifyQuery(query)

Lookup ==
    /\ ncalls < MaxCacheCalls
    /\ \E query \in ClassifyPool : LookupQuery(query)

NextCache == Classify \/ Lookup \/ TimePasses

SpecCache == Init /\ [][NextCache]_vars

(***************************************************************************)
(* Specification of the cache's overflow: one new query after the other is *)
(* classified, the clock moving on now and then.                           *)
(***************************************************************************)
Fill ==
    /\ ncalls < MaxInserts
    /\ ClassifyQuery(FillQuery(ncalls + 1))

FillTimePasses ==
    /\ ncalls % TickEvery = 0
    /\ TimePasses

NextEvict == Fill \/ FillTimePasses

SpecEvict == Init /\ [][NextEvict]_vars

(***************************************************************************)
(* Specification of merge_duplicates: a caller merges a list of records,   *)
(* then merges the same records in another order.                          *)
(***************************************************************************)
InitMerge ==
    /\ ServiceInit
    /\ NoThreads
    /\ results \in RecordLists
    /\ groups = <<>>
    /\ merged = FALSE
    /\ prev_groups = <<>>
    /\ reordered = FALSE

MergeDuplicates ==
    /\ ~merged
    /\ groups' = merge_duplicates(results)
    /\ merged' = TRUE
    /\ UNCHANGED <<results, prev_groups, reordered>>
    /\ UNCHANGED serviceVars
    /\ UNCHANGED threadVars

Reorder(p) ==
    /\ merged
    /\ ~reordered
    /\ results' = [i \in DOMAIN results |-> results[p[i]]]
    /\ prev_groups' = groups
    /\ groups' = <<>>
    /\ merged' = FALSE
    /\ reordered' = TRUE
    /\ UNCHANGED serviceVars
    /\ UNCHANGED threadVars

NextMerge ==
    \/ MergeDuplicates
    \/ \E p \in Orderings(Len(results)) : Reorder(p)

SpecMerge == InitMerge /\ [][NextMerge]_vars

(***************************************************************************)
(* Properties of merge_duplicates                                          *)
(***************************************************************************)
PersonsOf(author) == UNION {a.persons : a \in {b \in AuthorPool : b.text = author}}

\* The records of the list that have a title: the others are skipped
Titled == {i \in DOMAIN results : Strip(results[i].Title) # <<>>}

\* The group a titled record was counted in
GroupOf(i) == IndexOfKey(groups, GroupKey(Strip(results[i].Title), Strip(results[i].Author)))

\* C3: records of equal normalised title whose authors are one person written
\* as 'F. Last', 'First Last' or 'Last, F.' end up in exactly one group, whose
\* copies is their number.
C3_AuthorVariantsCollapse ==
    (/\ merged
     /\ results # <<>>
     /\ Titled = DOMAIN results
     /\ \A i, j \in DOMAIN results :
           normalize_title(results[i].Title) = normalize_title(results[j].Title)
     /\ \E person \in UNION {a.persons : a \in AuthorPool} :
           \A i \in DOMAIN results : person \in PersonsOf(results[i].Author))
    => (Len(groups) = 1 /\ groups[1].copies = Len(results))

\* C4: two records whose authors are different people are placed in
\* different groups, also when their titles are identical.
C4_DifferentAuthorsApart ==
    merged =>
      \A i, j \in Titled :
         (/\ PersonsOf(results[i].Author) # {}
          /\ PersonsOf(results[j].Author) # {}
          /\ PersonsOf(results[i].Author) \cap PersonsOf(results[j].Author) = {})
         => GroupOf(i) # GroupOf(j)

\* C5: a record with an empty author field and a record with a non-empty
\* author field are never placed in the same group.
C5_EmptyAuthorApart ==
    merged =>
      \A i, j \in Titled :
         (results[i].Author = <<>> /\ results[j].Author # <<>>)
         => GroupOf(i) # GroupOf(j)

\* The (title-key, author-key) groups with their copies
KeyCopies(dict) == {<<dict[i].key, dict[i].copies>> : i \in DOMAIN dict}

\* C6: merging the same records in another order yields the same groups by
\* (title-key, author-key), each with the same copies, and every titled record
\* is counted in exactly one of them.
C6_MergeOrderIndependent ==
    (merged /\ reordered) =>
      /\ KeyCopies(groups) = KeyCopies(prev_groups)
      /\ \A i, j \in DOMAIN groups : groups[i].key = groups[j].key => i = j
      /\ \A i \in DOMAIN groups :
            groups[i].copies =
              Cardinality({r \in Titled :
                 GroupKey(Strip(results[r].Title), Strip(results[r].Author)) = groups[i].key})

\* Two records of one book merged in both orders: the group is the same,
\* its representative record is the one that came first each time.
C6_Witness ==
    /\ merged
    /\ reordered
    /\ Len(results) = 2
    /\ Len(groups) = 1
    /\ groups[1].copies = 2
    /\ groups[1].Author # prev_groups[1].Author

(***************************************************************************)
(* Properties of the rate limiter                                          *)
(***************************************************************************)
\* The admitted requests of a client that are inside the window at time t
InWindow(rl, client_id, t) ==
    {i \in DOMAIN Timestamps(rl, client_id) : t - Timestamps(rl, client_id)[i] < window}

\* C1: a request of a client with max_requests admitted requests inside the
\* window is denied with rate_limit_exceeded and get_nandu_response is not
\* called; a request of a client with fewer of them inside the window, so
\* also one made once the window has elapsed since they were admitted, is
\* admitted.
C1_RateLimit ==
    [][ncalls' = ncalls + 1 =>
         IF Cardinality(InWindow(rate_limiter, request'.client_ip, now)) >= max_requests
         THEN /\ response'.error = "rate_limit_exceeded"
              /\ response'.retry_after = window
              /\ calls' = <<>>
         ELSE /\ response'.error = ""
              /\ calls' # <<>>
              /\ Head(calls') = "get_nandu_response"
              /\ now \in Range(Timestamps(rate_limiter', request'.client_ip))]_vars

\* A client's request is denied while its 20 admitted requests are inside
\* the window
C1_Witness ==
    /\ ncalls > max_requests
    /\ response.error = "rate_limit_exceeded"
    /\ calls = <<>>
    /\ Cardinality(InWindow(rate_limiter, request.client_ip, now)) = max_requests

(***************************************************************************)
(* Properties of the classification cache                                  *)
(***************************************************************************)
\* C2 as stated: after 501 distinct queries the cache holds exactly 400
\* entries.
C2_Holds400After501 ==
    ncalls = CacheMaxEntries + 1 =>
        Len(classification_cache) = CacheMaxEntries - CacheEvictCount

\* The entries of `before` whose key `after` no longer holds
Removed(before, after) == {i \in DOMAIN before : ~CacheHas(after, before[i].key)}

\* C2: the 501st distinct query finds 500 entries, is stored, and the 100
\* entries of the oldest timestamps are removed, which leaves 401 entries, the
\* new one among them.
C2_Holds401After501 ==
    [][(ncalls = CacheMaxEntries /\ ncalls' = ncalls + 1) =>
         /\ Len(classification_cache) = CacheMaxEntries
         /\ Len(classification_cache') = CacheMaxEntries + 1 - CacheEvictCount
         /\ CacheHas(classification_cache', CacheKey(request'.q))
         /\ Cardinality(Removed(classification_cache, classification_cache'))
               = CacheEvictCount
         /\ \A i \in Removed(classification_cache, classification_cache') :
            \A j \in DOMAIN classification_cache' :
               classification_cache[i].timestamp <= classification_cache'[j].timestamp]_vars

\* 501 queries have been classified, the clock moved in between, and the 401
\* entries left start at the 101st query
C2_Witness ==
    /\ ncalls = CacheMaxEntries + 1
    /\ Len(classification_cache) = CacheMaxEntries + 1 - CacheEvictCount
    /\ classification_cache[1].key = CacheKey(FillQuery(CacheEvictCount + 1))
    /\ classification_cache[1].timestamp < now

\* The entry of the key of `query`, fresh at time t
FreshEntries(cache, query, t) ==
    {i \in DOMAIN cache : /\ cache[i].key = CacheKey(query)
                          /\ t - cache[i].timestamp < CLASSIFICATION_CACHE_TTL}

\* C7: a call of classify_query_with_llama returns what the call before it
\* returned for the same query; and when the cache holds an entry of the
\* query that is inside the TTL, the call returns that entry's value, leaves
\* the cache as it is and does not evaluate the keyword rules.
C7_ClassifyIdempotent ==
    [][(ncalls' = ncalls + 1 /\ request'.op = "classify_query_with_llama") =>
         /\ (request.op = "classify_query_with_llama" /\ request.q = request'.q)
               => query_type' = query_type
         /\ \A i \in FreshEntries(classification_cache, request'.q, now) :
               /\ query_type' = classification_cache[i].classification
               /\ classification_cache' = classification_cache
               /\ calls' = <<"classify_query_with_llama", "get_cached_classification">>]_vars

\* " Fine " is classified from the entry that "fine" left an hour before
C7_Witness ==
    /\ request.op = "classify_query_with_llama"
    /\ request.q = <<" ","F","i","n","e"," ">>
    /\ calls = <<"classify_query_with_llama", "get_cached_classification">>
    /\ query_type = "general"
    /\ \E i \in DOMAIN classification_cache :
          /\ classification_cache[i].key = <<"f","i","n","e">>
          /\ classification_cache[i].timestamp < now

\* C8: get_cached_classification returns a classification only from an entry
\* less than 7200 seconds old; a lookup that finds an older entry removes it,
\* leaves the others as they are and returns None; and the passing of time
\* alone removes nothing.
C8_CacheTTL ==
    [][/\ (ncalls' = ncalls + 1 /\ request'.op = "get_cached_classification") =>
            /\ query_type' # "" =>
                  /\ FreshEntries(classification_cache, request'.q, now) # {}
                  /\ classification_cache' = classification_cache
            /\ \A i \in DOMAIN classification_cache :
                  IF /\ classification_cache[i].key = CacheKey(request'.q)
                     /\ now - classification_cache[i].timestamp >= CLASSIFICATION_CACHE_TTL
                  THEN /\ query_type' = ""
                       /\ ~CacheHas(classification_cache', CacheKey(request'.q))
                       /\ Len(classification_cache') = Len(classification_cache) - 1
                  ELSE classification_cache[i] \in Range(classification_cache')
       /\ now' # now => classification_cache' = classification_cache]_vars

\* A lookup found an entry of 7200 seconds or more and deleted it, while an
\* entry just as old that was not looked up is still in the cache
C8_Witness ==
    /\ request.op = "get_cached_classification"
    /\ calls = <<"get_cached_classification", "del classification_cache[query_key]">>
    /\ query_type = ""
    /\ ~CacheHas(classification_cache, CacheKey(request.q))
    /\ \E i \in DOMAIN classification_cache :
          now - classification_cache[i].timestamp >= CLASSIFICATION_CACHE_TTL

(***************************************************************************)
(* Properties of get_nandu_response                                        *)
(***************************************************************************)
\* C9: every call of get_nandu_response through its wrapper appends exactly
\* one record to the audit log.
C9_OneAuditPerCall ==
    [][ncalls' = ncalls + 1 => Len(audit_log') = Len(audit_log) + 1]_vars

ForcedModes == {"books", "library", "website"}

\* The first call of the retrieval path of a forced mode
RetrievalCall(search_mode) ==
    IF search_mode = "books" THEN "hybrid_book_search"
    ELSE IF search_mode = "library" THEN "get_general_answer"
    ELSE "fetch_website_content"

\* The last request was admitted with a query that passed validation
ValidRequest ==
    /\ request.op = "get_nandu_response"
    /\ calls # <<>>
    /\ request.q # <<>>
    /\ Len(request.q) <= 300
    /\ is_valid_query_cached[Strip(request.q)][1]

\* The query of the last request after spelling correction
CorrectedQuery == Strip(auto_correct_spelling_cached[<<Strip(request.q), request.corrected>>])

\* The calls made are those of the retrieval path of the forced mode, and the
\* classifier is not among them
ForcedPathTaken ==
    /\ "classify_query_with_llama" \notin Range(calls)
    /\ RetrievalCall(request.search_mode) \in Range(calls)
    /\ \A m \in ForcedModes \ {request.search_mode} : RetrievalCall(m) \notin Range(calls)

\* C10 as stated: every valid query in a forced mode is answered by the
\* retrieval path of that mode, without the classifier.
C10_ForcedModeAlwaysRoutes ==
    (ValidRequest /\ request.search_mode \in ForcedModes) => ForcedPathTaken

\* C10: a valid query in a forced mode never reaches the classifier, and
\* unless it is a library-statistics question, which get_library_statistics
\* answers in every mode, it is answered by the retrieval path of that mode.
C10_ForcedModeRoutes ==
    (ValidRequest /\ request.search_mode \in ForcedModes) =>
        /\ "classify_query_with_llama" \notin Range(calls)
        /\ IF IsStatisticsQueryOf[CorrectedQuery]
           THEN /\ "get_library_statistics" \in Range(calls)
                /\ \A m \in ForcedModes : RetrievalCall(m) \notin Range(calls)
           ELSE ForcedPathTaken

\* "python books" in mode library went to the general-answer lookup
C10_Witness ==
    /\ ValidRequest
    /\ request.search_mode = "library"
    /\ request.q = <<"p","y","t","h","o","n"," ","b","o","o","k","s">>
    /\ calls = <<"get_nandu_response", "is_valid_query", "auto_correct_spelling",
                 "get_general_answer">>

(***************************************************************************)
(* Specification of the lazy index loaders: threads call semantic_search   *)
(* and semantic_search_general_queries, which call _load_faiss_resources   *)
(* and _load_general_faiss_resources; a step of a thread is one statement  *)
(* of the loader, and the interpreter may switch threads between any two   *)
(* of them. The two loaders are the same code over their own cache and     *)
(* flag.                                                                   *)
(***************************************************************************)
MaxLoaderCalls == 1

\* for _ in range(20): time.sleep(0.5)
PollLimit == 20

CacheKeys == {"model", "index", "mapping"}

SetLoader(t, pc, polls, outcome) ==
    loader' = [loader EXCEPT ![t] = [@ EXCEPT !.pc = pc, !.polls = polls,
                                              !.outcome = outcome]]

\* A thread calls the search function of index r; without the index file or
\* the mapping file the loader is not called
LoadCall(t, r) ==
    /\ loader[t].pc = "idle"
    /\ loader[t].ncalls < MaxLoaderCalls
    /\ \E exists \in BOOLEAN :
          loader' = [loader EXCEPT ![t] =
                        [pc |-> IF exists THEN "check_cache" ELSE "search",
                         resource |-> r, polls |-> 0, ncalls |-> @.ncalls + 1,
                         outcome |-> IF exists THEN "" ELSE "no_index",
                         result |-> ""]]
    /\ UNCHANGED <<faiss_cache, faiss_loading>>

\* if 'model' in _faiss_cache: return ...
CheckCache(t) ==
    /\ loader[t].pc = "check_cache"
    /\ IF "model" \in faiss_cache[loader[t].resource]
       THEN SetLoader(t, "read_cache", 0, "cached")
       ELSE SetLoader(t, "check_loading", 0, "")
    /\ UNCHANGED <<faiss_cache, faiss_loading>>

\* return _faiss_cache['model'], _faiss_cache['index'], _faiss_cache['mapping']:
\* a key that is not stored yet raises KeyError
ReadCache(t) ==
    /\ loader[t].pc = "read_cache"
    /\ IF CacheKeys \subseteq faiss_cache[loader[t].resource]
       THEN SetLoader(t, "search", 0, loader[t].outcome)
       ELSE SetLoader(t, "search", 0, "KeyError")
    /\ UNCHANGED <<faiss_cache, faiss_loading>>

\* if _faiss_loading: ... wait; else go on to the load section
CheckLoading(t) ==
    /\ loader[t].pc = "check_loading"
    /\ IF faiss_loading[loader[t].resource]
       THEN SetLoader(t, "wait", 0, "")
       ELSE SetLoader(t, "set_loading", 0, "")
    /\ UNCHANGED <<faiss_cache, faiss_loading>>

\* One round of the waiting loop: sleep, then look at the cache; after the
\* last round raise Exception("FAISS loading timeout")
Poll(t) ==
    /\ loader[t].pc = "wait"
    /\ IF "model" \in faiss_cache[loader[t].resource]
       THEN SetLoader(t, "read_cache", loader[t].polls + 1, "waited")
       ELSE IF loader[t].polls + 1 >= PollLimit
       THEN SetLoader(t, "search", loader[t].polls + 1, "timeout")
       ELSE SetLoader(t, "wait", loader[t].polls + 1, "")
    /\ UNCHANGED <<faiss_cache, faiss_loading>>

\* _faiss_loading = True
SetLoading(t) ==
    /\ loader[t].pc = "set_loading"
    /\ faiss_loading' = [faiss_loading EXCEPT ![loader[t].resource] = TRUE]
    /\ SetLoader(t, "load", 0, "")
    /\ UNCHANGED faiss_cache

\* The try block up to the stores: get the model, read the index and the
\* mapping, or raise
Load(t) ==
    /\ loader[t].pc = "load"
    /\ \E ok \in BOOLEAN :
          IF ok THEN SetLoader(t, "store_model", 0, "")
          ELSE SetLoader(t, "finally", 0, "raised")
    /\ UNCHANGED <<faiss_cache, faiss_loading>>

\* _faiss_cache[key] = ..., the three keys one after the other
Store(t, pc, key, next) ==
    /\ loader[t].pc = pc
    /\ faiss_cache' = [faiss_cache EXCEPT ![loader[t].resource] = @ \cup {key}]
    /\ SetLoader(t, next, 0, IF next = "finally" THEN "loaded" ELSE "")
    /\ UNCHANGED faiss_loading

StoreModel(t) == Store(t, "store_model", "model", "store_index")
StoreIndex(t) == Store(t, "store_index", "index", "store_mapping")
StoreMapping(t) == Store(t, "store_mapping", "mapping", "finally")

\* A loader that clears the flag only after a load that succeeded
FinallyOnSuccess(t) ==
    /\ loader[t].pc = "finally"
    /\ faiss_loading' = [faiss_loading EXCEPT ![loader[t].resource] =
                             loader[t].outcome # "loaded"]
    /\ SetLoader(t, "search", 0, loader[t].outcome)
    /\ UNCHANGED faiss_cache

\* finally: _faiss_loading = False
Finally(t) ==
    /\ loader[t].pc = "finally"
    /\ faiss_loading' = [faiss_loading EXCEPT ![loader[t].resource] = FALSE]
    /\ SetLoader(t, "search", 0, loader[t].outcome)
    /\ UNCHANGED faiss_cache

\* The loader raised, or was not called for want of the index files
LoaderFailed(outcome) == outcome \in {"no_index", "timeout", "raised", "KeyError"}

\* What the search function returns after the loader returned or raised:
\* semantic_search the FAISS rows, or through semantic_search_tfidf_fallback
\* its rows or []; semantic_search_general_queries an answer or None
SearchResults(resource, outcome) ==
    IF resource = "catalogue"
    THEN (IF LoaderFailed(outcome) THEN {} ELSE {"faiss"}) \cup {"tfidf", "empty"}
    ELSE (IF LoaderFailed(outcome) THEN {} ELSE {"answer"}) \cup {"None"}

\* The rest of the search function
SearchReturns(t) ==
    /\ loader[t].pc = "search"
    /\ \E result \in SearchResults(loader[t].resource, loader[t].outcome) :
          loader' = [loader EXCEPT ![t] = [@ EXCEPT !.pc = "idle", !.result = result]]
    /\ UNCHANGED <<faiss_cache, faiss_loading>>

LoaderStep(t) ==
    \/ \E r \in Resources : LoadCall(t, r)
    \/ CheckCache(t)
    \/ ReadCache(t)
    \/ CheckLoading(t)
    \/ Poll(t)
    \/ SetLoading(t)
    \/ Load(t)
    \/ StoreModel(t)
    \/ StoreIndex(t)
    \/ StoreMapping(t)
    \/ Finally(t)
    \/ SearchReturns(t)

NextLoad ==
    /\ \E t \in LoaderThreads : LoaderStep(t)
    /\ UNCHANGED <<serviceVars, mergeVars, limiterVars, functionVars, adminVars, siteVars, classifierVars>>

SpecLoad == Init /\ [][NextLoad]_vars

\* The threads inside the load section of index r (lines 1631-1653)
InLoadSection(r) ==
    {t \in LoaderThreads : /\ loader[t].resource = r
                           /\ loader[t].pc \in {"load", "store_model", "store_index",
                                                "store_mapping", "finally"}}

\* C11: lazy index loading is single-flight: under any interleaving of
\* concurrent first calls of a loader, at most one caller is in the load
\* section of an index; the others wait for its result.
C11_SingleFlight ==
    \A r \in Resources : Cardinality(InLoadSection(r)) <= 1

(***************************************************************************)
(* Specification of the rate-limit wrapper under threads: each request is  *)
(* served by a thread that executes the statements of the wrapper one by   *)
(* one, and the interpreter may switch threads between any two of them.    *)
(* The list comprehension is taken as one step (it reads the list once).   *)
(* The requests arrive within the same second.                             *)
(***************************************************************************)
MaxWorkerCalls == 22

SetWorker(w, pc, pruned) ==
    worker' = [worker EXCEPT ![w] = [@ EXCEPT !.pc = pc, !.pruned = pruned]]

\* client_id = kwargs.get('client_ip', 'default'); current_time = time.time()
WorkerCall(w, client_ip) ==
    /\ worker[w].pc = "idle"
    /\ ncalls < MaxWorkerCalls
    /\ ncalls' = ncalls + 1
    /\ worker' = [worker EXCEPT ![w] = [pc |-> "prune", client_id |-> client_ip,
                                        current_time |-> now, pruned |-> <<>>]]
    /\ UNCHANGED <<rate_limiter, admitted>>

\* [ts for ts in _rate_limiter[client_id] if current_time - ts < window]
WorkerPrune(w) ==
    /\ worker[w].pc = "prune"
    /\ SetWorker(w, "store", Pruned(rate_limiter, worker[w].client_id,
                                    worker[w].current_time))
    /\ UNCHANGED <<rate_limiter, admitted, ncalls>>

\* _rate_limiter[client_id] = <the list just built>
WorkerStore(w) ==
    /\ worker[w].pc = "store"
    /\ rate_limiter' = SetClient(rate_limiter, worker[w].client_id, worker[w].pruned)
    /\ SetWorker(w, "check", <<>>)
    /\ UNCHANGED <<admitted, ncalls>>

\* if len(_rate_limiter[client_id]) >= max_requests: return {...}
WorkerCheck(w) ==
    /\ worker[w].pc = "check"
    /\ IF LimitExceeded(Timestamps(rate_limiter, worker[w].client_id))
       THEN SetWorker(w, "idle", <<>>)
       ELSE SetWorker(w, "append", <<>>)
    /\ UNCHANGED <<rate_limiter, admitted, ncalls>>

\* _rate_limiter[client_id].append(current_time); return func(*args, **kwargs)
WorkerAppend(w) ==
    /\ worker[w].pc = "append"
    /\ rate_limiter' = SetClient(rate_limiter, worker[w].client_id,
                                 Append(Timestamps(rate_limiter, worker[w].client_id),
                                        worker[w].current_time))
    /\ admitted' = Append(admitted, [client_id |-> worker[w].client_id,
                                     time |-> worker[w].current_time])
    /\ SetWorker(w, "idle", <<>>)
    /\ UNCHANGED ncalls

WorkerStep(w) ==
    \/ \E client_ip \in ApiClients : WorkerCall(w, client_ip)
    \/ WorkerPrune(w)
    \/ WorkerStore(w)
    \/ WorkerCheck(w)
    \/ WorkerAppend(w)

Workers ==
    /\ \E w \in WorkerThreads : WorkerStep(w)
    /\ UNCHANGED <<now, classification_cache, audit_log, calls, response,
                   error_tracker, request, query_type>>
    /\ UNCHANGED <<mergeVars, loaderVars, functionVars, adminVars, siteVars, classifierVars>>

NextWorkers == Workers

SpecWorkers == Init /\ [][NextWorkers]_vars

\* How many requests of a client were let through at time ts, and how many
\* times ts is in the client's list
AdmittedAt(client_id, ts) ==
    Cardinality({i \in DOMAIN admitted :
                    admitted[i].client_id = client_id /\ admitted[i].time = ts})
ListedAt(client_id, ts) ==
    Cardinality({i \in DOMAIN Timestamps(rate_limiter, client_id) :
                    Timestamps(rate_limiter, client_id)[i] = ts})

\* C12: the rate limiter is safe under concurrent access: whatever the
\* interleaving of simultaneous requests of one client, no more than
\* max_requests requests are let through inside one window (the requests of
\* this specification all arrive at the same time), and once no request is in progress the time of
\* every request let through is in the client's list.
C12_ConcurrentLimit ==
    \A c \in ApiClients :
        /\ Cardinality({i \in DOMAIN admitted : admitted[i].client_id = c}) <= max_requests
        /\ (\A w \in WorkerThreads : worker[w].pc = "idle")
              => ListedAt(c, now) >= AdmittedAt(c, now)

(***************************************************************************)
(* Specification of the administrative clear-cache: a client sends         *)
(* requests, and now and then the administrator posts /admin/clear-cache.  *)
(***************************************************************************)
MaxAdminCalls == 23

\* The query of the client
AdminQueries == {<<"f","i","n","e">>}

\* A dict that keeps its entries
dict_keep(d) == d

\* dict.clear()
dict_clear(d) == <<>>

\* nandu_brain.audit_log_admin_activity("cache_clear", {...}, admin_user="admin",
\* client_ip=client_ip): one record of the administrative action
AdminActivity(activity, client_ip) ==
    [activity |-> activity, admin_user |-> "admin", client_ip |-> client_ip]

\* POST /admin/clear-cache
AdminClearCache ==
    /\ ncalls < MaxAdminCalls
    /\ ncalls' = ncalls + 1
    /\ classification_cache' = dict_clear(classification_cache)
    /\ rate_limiter' = dict_clear(rate_limiter)
    /\ admin_log' = Append(admin_log, AdminActivity("cache_clear", "127.0.0.1"))
    /\ response' = [error |-> "", text |-> "ok", retry_after |-> 0]
    /\ calls' = <<"classification_cache.clear", "_rate_limiter.clear",
                  "audit_log_admin_activity">>
    /\ request' = Call("admin_clear_cache", <<>>, "", <<>>, <<>>)
    /\ UNCHANGED <<now, audit_log, error_tracker, query_type>>
    /\ UNCHANGED <<mergeVars, loaderVars, limiterVars, functionVars, siteVars, classifierVars>>

\* A request of the client in auto mode
AdminRequest ==
    /\ ncalls < MaxAdminCalls
    /\ \E q \in AdminQueries :
       \E client_ip \in ApiClients :
          GetNanduResponse(q, "auto", client_ip, Env(NoAnswers, <<>>))

NextAdmin == AdminRequest \/ AdminClearCache

SpecAdmin == Init /\ [][NextAdmin]_vars

\* C13: administrative clear-cache empties the classification cache and the
\* rate-limiter state: right after admin_clear_cache the cache has no entry and
\* no client has a timestamp, so the next request of a client is admitted
\* (also one that was denied just before) and the classification it needs
\* misses the cache and is computed anew.
C13_ClearCacheResets ==
    [][/\ (ncalls' = ncalls + 1 /\ request'.op = "admin_clear_cache")
             => /\ classification_cache' = <<>>
                /\ \A c \in ClientPool : Timestamps(rate_limiter', c) = <<>>
       /\ (ncalls' = ncalls + 1 /\ request.op = "admin_clear_cache"
                                /\ request'.op = "get_nandu_response")
             => /\ response'.error = ""
                /\ "classify_query_with_llama" \in Range(calls')
                      => "classify_query_fallback" \in Range(calls')]_vars

\* A client sent 20 requests, was denied the 21st, the administrator cleared
\* the caches, and the client's next request was admitted and classified anew
C13_Witness ==
    /\ ncalls = 23
    /\ Len(audit_log) = 21
    /\ Len(admin_log) = 1
    /\ request.op = "get_nandu_response"
    /\ response.error = ""
    /\ \E c \in ApiClients : Len(Timestamps(rate_limiter, c)) = 1
    /\ "classify_query_fallback" \in Range(calls)

(***************************************************************************)
(* Rejected requests                                                       *)
(***************************************************************************)
\* The last request was admitted with a query of more than 300 characters or
\* one that is_valid_query rejects
RejectedRequest ==
    /\ request.op = "get_nandu_response"
    /\ response.error = ""
    /\ request.q # <<>>
    /\ \/ Len(request.q) > 300
       \/ ~is_valid_query_cached[Strip(request.q)][1]

\* What a request calls after validation: the spelling correction, the
\* classifier, the retrievers and the general-answer resolver
ProcessingCalls ==
    {"auto_correct_spelling", "classify_query_with_llama", "classify_query_fallback",
     "get_cached_classification", "cache_classification", "get_library_statistics",
     "get_general_answer", "fetch_website_content", "search_website_content",
     "normalize_book_query", "hybrid_book_search", "format_results"}

\* C14: a request whose query is longer than 300 characters or fails
\* validation is rejected at once: it gets the error message, and neither the
\* spelling correction nor the classifier nor any retriever nor the
\* general-answer resolver is invoked.
C14_RejectedCallsNothing ==
    RejectedRequest =>
        /\ Range(calls) \cap ProcessingCalls = {}
        /\ response.text \in {MSG_TOO_LONG, LENGTH_ERROR, GIBBERISH_ERROR}

\* A request with a gibberish query was rejected after is_valid_query
C14_Witness ==
    /\ RejectedRequest
    /\ request.q = <<"x","k","c","d","q","w","r","t","z">>
    /\ response.text = GIBBERISH_ERROR
    /\ calls = <<"get_nandu_response", "is_valid_query">>

(***************************************************************************)
(* Specification of is_valid_query: it is applied to every string of up to *)
(* MaxValidLen characters over a vowel, two consonants and the space.      *)
(***************************************************************************)
MaxValidLen == 7

ValidChars == {"a", "k", "t", " "}

\* The strings of up to n characters of an alphabet
Strings(alphabet, n) == UNION {[1..k -> alphabet] : k \in 0..n}

\* Every variable but those of the pure functions is as after the import
FunctionInit(op, inputs) ==
    /\ ServiceInit /\ NoMerge /\ NoLoaders /\ NoWorkers /\ admin_log = <<>>
    /\ site = DefaultSite /\ NoClassifiers
    /\ fn_call \in {[op |-> op, args |-> args] : args \in inputs}
    /\ fn_result = NotApplied

\* The function returns v
Return(v) ==
    /\ ~fn_result.done
    /\ fn_result' = Returned(v)
    /\ UNCHANGED <<fn_call, serviceVars, mergeVars, loaderVars, limiterVars, adminVars, siteVars,
                   classifierVars>>

InitValid == FunctionInit("is_valid_query", {<<q>> : q \in Strings(ValidChars, MaxValidLen)})

IsValidQuery == Return(is_valid_query(fn_call.args[1]))

NextValid == IsValidQuery

SpecValid == InitValid /\ [][NextValid]_vars

\* Some 2-character substring of the query occurs (str.count: without
\* overlap) more than length/4 times
RepeatedPair(query) ==
    \E i \in 1..(Len(query) - 1) :
        StrCount(query, SubSeq(query, i, i + 1)) * 4 > Len(query)

\* More than 5 letters, fewer than 15% of them vowels
FewVowels(query) ==
    /\ CountIf(query, IsAlpha) > 5
    /\ CountIf(query, LAMBDA c : c \in Vowels) * 100 < CountIf(query, IsAlpha) * 15

\* The rules as stated: too short, few vowels, a repeated pair at any length
StatedRules(query) ==
    IF Len(Strip(query)) < 2 THEN <<FALSE, LENGTH_ERROR>>
    ELSE IF FewVowels(query) \/ RepeatedPair(query) THEN <<FALSE, GIBBERISH_ERROR>>
    ELSE <<TRUE, "">>

\* The rules with the repetition test on queries of more than 4 characters
LongRules(query) ==
    IF Len(Strip(query)) < 2 THEN <<FALSE, LENGTH_ERROR>>
    ELSE IF FewVowels(query) \/ (Len(query) > 4 /\ RepeatedPair(query))
    THEN <<FALSE, GIBBERISH_ERROR>>
    ELSE <<TRUE, "">>

\* C15 as stated: is_valid_query fails with the length error below 2
\* characters after trimming, with the gibberish message for more than 5
\* letters of which fewer than 15% are vowels and for a 2-character substring
\* that repeats more than length/4 times, and accepts every other query.
C15_ValidAsStated ==
    fn_result.done => fn_result.value = StatedRules(fn_call.args[1])

\* C15: the same, the repetition rule applying only to queries of more than 4
\* characters (occurrences counted without overlap).
C15_ValidRules ==
    fn_result.done => fn_result.value = LongRules(fn_call.args[1])

\* "atat", where "at" occurs twice in four characters, was accepted
C15_Witness ==
    /\ fn_result.done
    /\ fn_call.args[1] = <<"a","t","a","t">>
    /\ fn_result.value = <<TRUE, "">>

(***************************************************************************)
(* Specification of auto_correct_spelling: it is applied to queries with   *)
(* and without preserved terms, the external corrector (TextBlob) making   *)
(* of each query any of a set of texts, or leaving it as it is.            *)
(***************************************************************************)
CorrectQueries == {
    <<"o","p","a","c"," ","t","i","m","i","n","g","s">>,
    <<"O","P","A","C"," ","T","i","m","i","n","g","s">>,
    <<"w","h","a","t"," ","i","s"," ","o","p","a","c","?">>,
    <<"w","e","b","o","p","a","c"," ","l","o","g","i","n">>,
    <<"o","p","a","q","u","e"," ","g","l","a","s","s">>,
    <<"p","y","t","h","o","n"," ","b","o","k","s">>,
    <<"i","s","b","n",","," ","d","o","i">>,
    <<" "," ","R","o","p","a","r"," "," ","l","i","b","r","a","r","y">>,
    <<"h","e","l","o"," ","w","o","r","l","d">>,
    <<"v","p","n">>}

\* What str(TextBlob(query).correct()) may be, besides the query itself
CorrectorTexts == {
    <<"p","a","c"," ","t","i","m","i","n","g","s">>,
    <<"w","h","a","t"," ","i","s"," ","p","a","c","k","?">>,
    <<"p","y","t","h","o","n"," ","b","o","o","k","s">>,
    <<"h","e","l","l","o"," ","w","o","r","l","d">>,
    <<"o","p","e","n"," ","t","i","m","i","n","g","s">>,
    <<"o","p","a","q","u","e"," ","g","l","a","s","s">>,
    <<"i","s","n",","," ","d","o">>,
    <<"v","i","n">>}

InitCorrect ==
    FunctionInit("auto_correct_spelling",
                 {<<q, TextBlobCorrect(q, c)>> : q \in CorrectQueries,
                                                c \in {<<>>} \cup CorrectorTexts})

AutoCorrectSpelling ==
    Return(auto_correct_spelling(fn_call.args[1], fn_call.args[2], author_token_lexicon))

NextCorrect == AutoCorrectSpelling

SpecCorrect == InitCorrect /\ [][NextCorrect]_vars

\* The query contains a term of the preserve-list as a whole word (between
\* word boundaries), whatever the case
HasPreservedWord(query) == HasWord(Lower(query), Range(preserve_words))

\* C16: spelling-correction short-circuit: every query that contains, as a
\* whole word compared case-insensitively, a term of the preserve-list is
\* returned unchanged, whatever the external corrector produces.
C16_PreservedUnchanged ==
    (fn_call.op = "auto_correct_spelling" /\ fn_result.done
        /\ HasPreservedWord(fn_call.args[1]))
    => fn_result.value = fn_call.args[1]

(***************************************************************************)
(* get_general_answer and extract_query_intent                             *)
(***************************************************************************)
\* question_words (line 1192)
question_words == {<<"w","h","a","t">>, <<"w","h","e","n">>, <<"w","h","e","r","e">>, <<"w","h","o">>, <<"w","h","y">>, <<"h","o","w">>, <<"w","h","i","c","h">>, <<"c","a","n">>, <<"i","s">>, <<"a","r","e">>, <<"d","o">>, <<"d","o","e","s">>}

\* fillers (line 1206)
fillers == {<<"p","l","e","a","s","e">>, <<"t","e","l","l"," ","m","e">>, <<"i"," ","w","a","n","t"," ","t","o"," ","k","n","o","w">>, <<"c","a","n"," ","y","o","u">>, <<"c","o","u","l","d"," ","y","o","u">>, <<"a","b","o","u","t">>, <<"t","h","e">>}

\* synonyms (lines 1272-1289): the words and their sets
synonyms == {
    <<<<"h","o","u","r","s">>,
      {<<"c","l","o","s","e">>, <<"h","o","u","r","s">>, <<"o","p","e","n">>, <<"s","c","h","e","d","u","l","e">>, <<"t","i","m","e">>, <<"t","i","m","i","n","g">>, <<"t","i","m","i","n","g","s">>}>>,
    <<<<"t","i","m","i","n","g">>,
      {<<"h","o","u","r","s">>, <<"o","p","e","n">>, <<"s","c","h","e","d","u","l","e">>, <<"t","i","m","e">>, <<"t","i","m","i","n","g","s">>, <<"w","h","e","n">>}>>,
    <<<<"t","i","m","i","n","g","s">>,
      {<<"h","o","u","r","s">>, <<"o","p","e","n">>, <<"s","c","h","e","d","u","l","e">>, <<"t","i","m","e">>, <<"t","i","m","i","n","g">>, <<"w","h","e","n">>}>>,
    <<<<"o","p","e","n">>,
      {<<"a","c","c","e","s","s","i","b","l","e">>, <<"a","v","a","i","l","a","b","l","e">>, <<"h","o","u","r","s">>, <<"s","c","h","e","d","u","l","e">>, <<"t","i","m","i","n","g">>, <<"t","i","m","i","n","g","s">>}>>,
    <<<<"f","i","n","e">>,
      {<<"c","h","a","r","g","e">>, <<"f","e","e">>, <<"f","i","n","e","s">>, <<"l","a","t","e"," ","f","e","e">>, <<"o","v","e","r","d","u","e">>, <<"p","e","n","a","l","t","y">>}>>,
    <<<<"b","o","o","k">>,
      {<<"b","o","o","k","s">>, <<"p","u","b","l","i","c","a","t","i","o","n">>, <<"t","i","t","l","e">>, <<"t","i","t","l","e","s">>, <<"v","o","l","u","m","e">>}>>,
    <<<<"r","e","n","e","w">>,
      {<<"e","x","t","e","n","d">>, <<"e","x","t","e","n","s","i","o","n">>, <<"r","e","i","s","s","u","e">>, <<"r","e","n","e","w","a","l">>}>>,
    <<<<"i","s","s","u","e">>,
      {<<"b","o","r","r","o","w">>, <<"c","h","e","c","k","o","u","t">>, <<"g","e","t">>, <<"l","o","a","n">>, <<"t","a","k","e">>}>>,
    <<<<"r","e","t","u","r","n">>,
      {<<"b","r","i","n","g"," ","b","a","c","k">>, <<"g","i","v","e"," ","b","a","c","k">>, <<"s","u","b","m","i","t">>}>>,
    <<<<"s","e","a","r","c","h">>,
      {<<"d","i","s","c","o","v","e","r">>, <<"f","i","n","d">>, <<"l","o","c","a","t","e">>, <<"l","o","o","k">>}>>,
    <<<<"f","i","n","d">>,
      {<<"g","e","t">>, <<"l","o","c","a","t","e">>, <<"l","o","o","k">>, <<"s","e","a","r","c","h">>}>>,
    <<<<"e","-","j","o","u","r","n","a","l","s">>,
      {<<"d","i","g","i","t","a","l">>, <<"e","-","j","o","u","r","n","a","l">>, <<"e","-","r","e","s","o","u","r","c","e","s">>, <<"e","j","o","u","r","n","a","l">>, <<"e","j","o","u","r","n","a","l","s">>, <<"j","o","u","r","n","a","l">>, <<"j","o","u","r","n","a","l","s">>, <<"o","n","l","i","n","e">>}>>,
    <<<<"e","j","o","u","r","n","a","l">>,
      {<<"e","-","j","o","u","r","n","a","l">>, <<"e","-","j","o","u","r","n","a","l","s">>, <<"e","-","r","e","s","o","u","r","c","e","s">>, <<"e","j","o","u","r","n","a","l","s">>, <<"j","o","u","r","n","a","l","s">>}>>,
    <<<<"e","-","r","e","s","o","u","r","c","e","s">>,
      {<<"d","i","g","i","t","a","l">>, <<"e","-","j","o","u","r","n","a","l","s">>, <<"e","j","o","u","r","n","a","l","s">>, <<"e","l","e","c","t","r","o","n","i","c">>, <<"e","r","e","s","o","u","r","c","e","s">>, <<"o","n","l","i","n","e">>}>>,
    <<<<"h","e","l","p">>,
      {<<"a","s","s","i","s","t">>, <<"g","u","i","d","e">>, <<"i","n","f","o","r","m","a","t","i","o","n">>, <<"s","u","p","p","o","r","t">>}>>,
    <<<<"a","c","c","e","s","s">>,
      {<<"a","v","a","i","l","a","b","l","e">>, <<"g","e","t">>, <<"o","b","t","a","i","n">>, <<"u","s","e">>}>>}

StartsWith(s, prefix) == Len(prefix) <= Len(s) /\ SubSeq(s, 1, Len(prefix)) = prefix

\* re.sub(rf'\b{qw}\s+', '', s, count=1): the first place where the word
\* starts at a word boundary and whitespace follows; the word and the whole
\* run of whitespace go
RemoveWord(s, qw) ==
    LET places == {i \in 1..Len(s) : /\ WordBoundary(s, i)
                                    /\ MatchAt(s, i, qw)
                                    /\ i + Len(qw) <= Len(s)
                                    /\ s[i + Len(qw)] \in Whitespace}
        Cut(i) ==
            LET after == {j \in (i + Len(qw))..Len(s) : s[j] \notin Whitespace}
                next == IF after = {} THEN Len(s) + 1
                        ELSE CHOOSE j \in after : \A k \in after : j <= k
            IN  SubSeq(s, 1, i - 1) \o SubSeq(s, next, Len(s))
    IN  IF places = {} THEN s
        ELSE Cut(CHOOSE i \in places : \A k \in places : i <= k)

\* s.replace(pat, rep)
RECURSIVE ReplaceFrom(_, _, _, _)
ReplaceFrom(s, pat, rep, i) ==
    IF i > Len(s) THEN <<>>
    ELSE IF MatchAt(s, i, pat) THEN rep \o ReplaceFrom(s, pat, rep, i + Len(pat))
    ELSE <<s[i]>> \o ReplaceFrom(s, pat, rep, i + 1)

Replace(s, pat, rep) == ReplaceFrom(s, pat, rep, 1)

\* extract_query_intent(query)["alternatives"]: a list made from a set, so its
\* order is not fixed
Alternatives(query_lower) ==
    LET has_question == \E qw \in question_words : StartsWith(query_lower, qw)
        without_question ==
            IF has_question
            THEN {Strip(RemoveWord(query_lower, qw)) :
                     qw \in {w \in question_words : RemoveWord(query_lower, w) # query_lower}}
            ELSE {}
        without_filler ==
            {JoinSpace(Split(Strip(Replace(query_lower, f, <<" ">>)))) : f \in fillers}
    IN  {query_lower} \cup without_question
                      \cup {alt \in without_filler : alt # <<>> /\ alt # query_lower}

\* The number of characters two strings share, counted with multiplicity
SharedChars(a, b) ==
    LET Occ(s, c) == Cardinality({i \in DOMAIN s : s[i] = c})
        Min(x, y) == IF x < y THEN x ELSE y
    IN  Cardinality({<<c, k>> \in Range(a) \X (1..Len(a)) :
                        k <= Min(Occ(a, c), Occ(b, c))})

\* difflib.get_close_matches(alt, keys, n=3, cutoff=0.75) can only return a key
\* whose quick_ratio, 2 * shared / (len(alt) + len(key)), reaches the cutoff
\* (ratio() is never above quick_ratio()); whether ratio() reaches it too is
\* left open
MayBeClose(alt, key) ==
    /\ Len(alt) + Len(key) > 0
    /\ 200 * SharedChars(alt, key) >= 75 * (Len(alt) + Len(key))

\* A score as a fraction
Fraction(num, den) == [num |-> num, den |-> den]
Greater(a, b) == a.num * b.den > b.num * a.den

\* expanded_query: the words of the query and the synonyms of each
ExpandedQuery(query_words) ==
    query_words \cup UNION {p[2] : p \in {s \in synonyms : s[1] \in query_words}}

\* A score without the substring factor
NoSubstringBoost(query_lower, query_words, key) == 0

\* Factor 2, in hundredths: the query in the key or the key in the query 0.3,
\* a word of four letters or more of the query in the key 0.2
SubstringBoost(query_lower, query_words, key) ==
    IF Len(query_lower) >= 4 /\ Len(key) >= 4
    THEN IF Contains(key, query_lower) \/ Contains(query_lower, key) THEN 30
         ELSE IF \E word \in query_words : Len(word) >= 4 /\ Contains(key, word) THEN 20
         ELSE 0
    ELSE 0

\* Factor 3: the words of the query that are in the key at the same place or
\* next to it
CommonInOrder(query_word_list, key_word_list) ==
    Cardinality({i \in DOMAIN query_word_list :
        /\ i <= Len(key_word_list)
        /\ \E j \in DOMAIN key_word_list :
              /\ j >= i - 1
              /\ j <= i + 1
              /\ key_word_list[j] = query_word_list[i]})

\* total_score of a key: overlap + substring boost + order boost
TotalScore(query_lower, key) ==
    LET query_words == Range(Split(query_lower))
        key_words == Range(Split(Lower(key)))
        common == Cardinality(ExpandedQuery(query_words) \cap key_words)
        larger == IF Cardinality(query_words) > Cardinality(key_words)
                  THEN Cardinality(query_words) ELSE Cardinality(key_words)
        m == IF larger = 0 THEN 1 ELSE larger
        n == IF Len(Split(query_lower)) = 0 THEN 1 ELSE Len(Split(query_lower))
        in_order == IF common > 0 THEN CommonInOrder(Split(query_lower), Split(key)) ELSE 0
    IN  Fraction(100 * common * n
                   + SubstringBoost(query_lower, query_words, key) * m * n
                   + 15 * in_order * m,
                 100 * m * n)

\* The loop over the keys: the first key of the highest score above 0
RECURSIVE BestMatch(_, _, _, _)
BestMatch(query_lower, keys, i, best) ==
    IF i > Len(keys) THEN best
    ELSE IF Greater(TotalScore(query_lower, keys[i]), best.score)
    THEN BestMatch(query_lower, keys, i + 1,
                   [key |-> keys[i], found |-> TRUE,
                    score |-> TotalScore(query_lower, keys[i])])
    ELSE BestMatch(query_lower, keys, i + 1, best)

\* if best_match and best_score > 0.35
Accepted(best) == best.found /\ Greater(best.score, Fraction(35, 100))

\* What get_general_answer returns: None, or the answer stored under a key
NoAnswer == [key |-> <<>>, via |-> "none"]
AnswerOf(key, via) == [key |-> key, via |-> via]

\* get_general_answer(query): the values it can return, given the keys of
\* general_queries.json in file order (or that the file does not exist) and
\* what the semantic search finds
get_general_answer(query, keys, exists, faiss) ==
    LET query_lower == Strip(Lower(query))
        alternatives == Alternatives(query_lower)
        exact == {alt \in alternatives : alt \in Range(keys)}
        close == {key \in Range(keys) : \E alt \in alternatives : MayBeClose(alt, key)}
        best == BestMatch(query_lower, keys, 1,
                          [key |-> <<>>, found |-> FALSE, score |-> Fraction(0, 1)])
        scored == IF Accepted(best) THEN {AnswerOf(best.key, "score")} ELSE {NoAnswer}
    IN  IF ~exists THEN {NoAnswer}
        ELSE IF faiss # "none" THEN {AnswerOf(<<>>, "faiss")}
        ELSE IF query_lower \in Range(keys) THEN {AnswerOf(query_lower, "exact")}
        ELSE IF exact # {} THEN {AnswerOf(alt, "exact") : alt \in exact}
        ELSE {AnswerOf(key, "fuzzy") : key \in close} \cup scored

(***************************************************************************)
(* Specification of get_general_answer: it is applied to queries over      *)
(* small Q&A tables, with and without a hit of the semantic search.        *)
(***************************************************************************)
GeneralQueries == {
    <<"w","h","a","t"," ","t","i","m","e"," ","i","s"," ","t","h","e"," ","l","i","b","r","a","r","y"," ","o","p","e","n">>,
    <<"l","i","b","r","a","r","y"," ","t","i","m","i","n","g","s">>,
    <<"L","i","b","r","a","r","y"," ","T","i","m","i","n","g","s"," ">>,
    <<"f","i","n","e">>,
    <<"h","o","w"," ","t","o"," ","r","e","n","e","w"," ","a"," ","b","o","o","k">>,
    <<"t","e","l","l"," ","m","e"," ","a","b","o","u","t"," ","t","h","e"," ","l","i","b","r","a","r","y"," ","t","i","m","i","n","g">>,
    <<"o","p","e","n","i","n","g"," ","h","o","u","r","s">>,
    <<"l","i","b","a","r","y"," ","t","i","m","i","n","g","s">>}

\* The keys of general_queries.json, in file order
GeneralTables == {
    <<<<"l","i","b","r","a","r","y"," ","t","i","m","i","n","g","s">>>>,
    <<<<"l","i","b","r","a","r","y"," ","t","i","m","i","n","g","s">>, <<"f","i","n","e"," ","p","o","l","i","c","y">>>>,
    <<<<"r","e","n","e","w"," ","b","o","o","k">>, <<"l","i","b","r","a","r","y"," ","t","i","m","i","n","g","s">>>>,
    <<>>}

InitGeneral ==
    FunctionInit("get_general_answer",
                 GeneralQueries \X GeneralTables \X BOOLEAN \X {"none", "hit"})

GetGeneralAnswer ==
    \E v \in get_general_answer(fn_call.args[1], fn_call.args[2], fn_call.args[3],
                                fn_call.args[4]) : Return(v)

NextGeneral == GetGeneralAnswer

SpecGeneral == InitGeneral /\ [][NextGeneral]_vars

\* The scenario: the only key is 'library timings', the file is there, the
\* semantic search finds nothing, the query is 'what time is the library open'
TimingsKey == <<"l","i","b","r","a","r","y"," ","t","i","m","i","n","g","s">>
TimingsScenario ==
    /\ fn_call.op = "get_general_answer"
    /\ fn_call.args = <<<<"w","h","a","t"," ","t","i","m","e"," ","i","s"," ","t","h","e"," ","l","i","b","r","a","r","y"," ","o","p","e","n">>, <<TimingsKey>>, TRUE, "none">>

\* C17: with a Q&A table whose only key is 'library timings' and no semantic
\* index, get_general_answer('what time is the library open') returns the
\* answer stored under 'library timings': the score of that key (overlap +
\* substring boost + order boost, with the synonyms) is above 0.35.
C17_TimingsResolved ==
    (TimingsScenario /\ fn_result.done) =>
        /\ fn_result.value = AnswerOf(TimingsKey, "score")
        /\ Greater(TotalScore(Strip(Lower(fn_call.args[1])), TimingsKey), Fraction(35, 100))

\* The scenario was run and answered from the key 'library timings'
C17_Witness ==
    /\ TimingsScenario
    /\ fn_result.done
    /\ fn_result.value.key = TimingsKey

(***************************************************************************)
(* Specification of classify_query_fallback: it is applied to queries made *)
(* of one or two phrases, among them ISBNs of both shapes, general-service *)
(* keywords, e-resource phrases, instructional phrases, book indicators    *)
(* and subject words.                                                      *)
(***************************************************************************)
FallbackPhrases == {
    <<"9","7","8","0","1","3","1","1","0","3","6","2","7">>,
    <<"1","2","3","4","5","6","7","8","9","X">>,
    <<"0","1","3","1","1","0","3","6","2","8">>,
    <<"1","2","3","4","5","6","7","8","9","0","1">>,
    <<"f","i","n","e">>,
    <<"P","o","l","i","c","y">>,
    <<"p","h","y","s","i","c","s">>,
    <<"b","o","o","k"," ","b","y"," ","k","n","u","t","h">>,
    <<"e","-","j","o","u","r","n","a","l","s">>,
    <<"h","o","w"," ","t","o"," ","s","e","a","r","c","h">>,
    <<"g","u","i","d","e"," ","t","o"," ","f","i","n","d">>,
    <<"o","p","e","n","i","n","g">>,
    <<"n","o","v","e","l","s">>,
    <<"i","s","b","n">>}

FallbackQueries ==
    FallbackPhrases
        \cup {JoinSpace(<<p[1], p[2]>>) :
                p \in {pp \in FallbackPhrases \X FallbackPhrases : pp[1] # pp[2]}}

InitFallback == FunctionInit("classify_query_fallback", {<<q>> : q \in FallbackQueries})

ClassifyQueryFallback == Return(classify_query_fallback(fn_call.args[1]))

NextFallback == ClassifyQueryFallback

SpecFallback == InitFallback /\ [][NextFallback]_vars

\* The query holds an ISBN-shaped token: 13 digits, or nine digits followed
\* by a digit or the letter X, between word boundaries
IsbnToken(query) == HasIsbn(query)

\* The query matches an e-resource/journal phrase, a general-service keyword
\* or an instructional how-to-search pattern, whatever the case
GeneralMatch(query) ==
    \/ AnyIn(Lower(query), eresource_patterns)
    \/ AnyIn(Lower(query), general_keywords)
    \/ Instructional(Lower(query))

\* The query matches a book keyword, a book indicator or a subject word
BookMatch(query) ==
    \/ AnyIn(Lower(query), book_keywords)
    \/ AnyIn(Lower(query), book_indicators)
    \/ HasWord(Lower(query), subject_words)

FallbackReturned(query) ==
    /\ fn_call.op = "classify_query_fallback"
    /\ fn_call.args[1] = query
    /\ fn_result.done

\* C18: rule order of the fallback classifier, first match wins: a query
\* without an ISBN-shaped token is general if it matches an e-resource
\* phrase, a general-service keyword or an instructional pattern, even when
\* it also matches book indicators or subject words, and book otherwise; the
\* result is always book or general.
C18_RuleOrder ==
    (fn_call.op = "classify_query_fallback" /\ fn_result.done)
    => /\ fn_result.value \in {"book", "general"}
       /\ ~IsbnToken(fn_call.args[1])
            => fn_result.value = IF GeneralMatch(fn_call.args[1]) THEN "general"
                                 ELSE "book"

\* 'physics fine' matches a subject word and a general keyword: general
C18_Witness ==
    /\ FallbackReturned(<<"p","h","y","s","i","c","s"," ","f","i","n","e">>)
    /\ BookMatch(fn_call.args[1])
    /\ GeneralMatch(fn_call.args[1])
    /\ ~IsbnToken(fn_call.args[1])
    /\ fn_result.value = "general"

\* C19: the ISBN rule has top priority: every query with an ISBN-shaped
\* token (13 digits, or nine digits followed by a digit or the letter X) is
\* classified book, even if it also contains general-service keywords.
C19_IsbnFirst ==
    (fn_call.op = "classify_query_fallback" /\ fn_result.done
        /\ IsbnToken(fn_call.args[1]))
    => fn_result.value = "book"

(***************************************************************************)
(* Specification of the general path with its files: requests in auto mode *)
(* are served by an installation whose settings, website cache and Q&A     *)
(* file are in any of their states, while the network answers, fails or    *)
(* returns a page that cannot be processed, and the cache grows old.       *)
(***************************************************************************)
MaxSiteCalls == 2

\* cache/website_cache.json: missing, younger than cache_timeout or older,
\* holding JSON or not
CacheStates == {"absent", "fresh", "fresh_unreadable", "stale", "stale_unreadable"}

\* general_queries.json
GeneralQueriesStates == {"missing", "unreadable", "readable"}

\* requests.get(url, headers=headers, timeout=5) and what follows it in the
\* try block: the page is parsed and cached, a requests.RequestException is
\* raised, or another exception is raised
NetworkOutcomes == {"page", "request_error", "other_error"}

Sites ==
    [NANDU_WEBSCRAPE : BOOLEAN, HAS_BS4 : BOOLEAN, website_cache : CacheStates,
     general_queries : GeneralQueriesStates]

\* "fine" is classified general, "python books" book
SiteQueries == {<<"f","i","n","e">>, <<"p","y","t","h","o","n"," ","b","o","o","k","s">>}

\* fetch_website_content(): 'data' for a dict, 'None', or 'raises' when an
\* exception leaves the function; cache is the cache file afterwards
fetch_website_content(s, network) ==
    IF ~s.NANDU_WEBSCRAPE THEN [data |-> "None", cache |-> s.website_cache]
    ELSE IF ~s.HAS_BS4 THEN [data |-> "None", cache |-> s.website_cache]
    ELSE IF s.website_cache = "fresh" THEN [data |-> "data", cache |-> s.website_cache]
    \* json.load fails inside the try block: except Exception
    ELSE IF s.website_cache = "fresh_unreadable"
    THEN [data |-> "None", cache |-> s.website_cache]
    ELSE IF network = "page" THEN [data |-> "data", cache |-> "fresh"]
    ELSE IF network = "other_error" THEN [data |-> "None", cache |-> s.website_cache]
    \* except requests.RequestException: the stale cache is read inside the
    \* handler, where no except clause applies
    ELSE IF s.website_cache = "stale" THEN [data |-> "data", cache |-> s.website_cache]
    ELSE IF s.website_cache = "stale_unreadable"
    THEN [data |-> "raises", cache |-> s.website_cache]
    ELSE [data |-> "None", cache |-> s.website_cache]

\* What get_general_answer returns: None without the file, None (except
\* Exception) when the file cannot be read, else what the table holds
ResolverOutcome(s, answers) ==
    IF s.general_queries = "readable" /\ answers THEN "found" ELSE "none"

\* What fetch_website_content and search_website_content make of the website
WebsiteOutcome(data, matches) ==
    IF data = "raises" THEN "raises"
    ELSE IF data = "None" THEN "nodata"
    ELSE IF matches THEN "found"
    ELSE "none"

SiteScenario(s, answers, data, matches) ==
    [stats |-> "none", general |-> ResolverOutcome(s, answers),
     website |-> WebsiteOutcome(data, matches), books |-> "none"]

InitSite ==
    /\ ServiceInit /\ NoMerge /\ NoLoaders /\ NoWorkers /\ NoFunction
    /\ admin_log = <<>> /\ NoClassifiers
    /\ site \in Sites

\* A request in auto mode; the cache file is written when the website was
\* fetched
SiteRequest ==
    /\ ncalls < MaxSiteCalls
    /\ \E q \in SiteQueries :
       \E client_ip \in ApiClients :
       \E network \in NetworkOutcomes :
       \E answers \in BOOLEAN :
       \E matches \in BOOLEAN :
       \E f \in {fetch_website_content(site, network)} :
          /\ wrapper(q, "auto", client_ip,
                     Env(SiteScenario(site, answers, f.data, matches), <<>>))
          /\ site' = IF \E i \in DOMAIN calls' : calls'[i] = "fetch_website_content"
                     THEN [site EXCEPT !.website_cache = f.cache]
                     ELSE site
          /\ UNCHANGED <<loaderVars, limiterVars, functionVars, adminVars, classifierVars>>

\* cache_timeout seconds go by since the cache file was written
CacheAges ==
    /\ site.website_cache \in {"fresh", "fresh_unreadable"}
    /\ site' = [site EXCEPT !.website_cache =
                    IF @ = "fresh" THEN "stale" ELSE "stale_unreadable"]
    /\ UNCHANGED <<serviceVars, mergeVars, loaderVars, limiterVars, functionVars,
                   adminVars, classifierVars>>

NextSite == SiteRequest \/ CacheAges

SpecSite == InitSite /\ [][NextSite]_vars

Called(name) == \E i \in DOMAIN calls : calls[i] = name

CalledBefore(first, second) ==
    \E i \in DOMAIN calls : \E j \in DOMAIN calls :
        i < j /\ calls[i] = first /\ calls[j] = second

\* The last request took the general path
GeneralPathTaken ==
    /\ request.op = "get_nandu_response"
    /\ request.search_mode = "auto"
    /\ Called("get_general_answer")

GeneralAnswers == {GeneralPrefixOf[q] : q \in SiteQueries}

\* C20: degradation chain of the general path: the resolver is consulted
\* first; the website search only if the resolver had no answer; the fixed
\* fallback message only if both produced nothing; a failure of a sub-step
\* (missing Q&A data, fetch error, unreadable stale cache) leads to the next
\* step, never to an error response.
C20_DegradationChain ==
    GeneralPathTaken
    => /\ response.text \in GeneralAnswers \cup {MSG_GENERAL_WEBSITE, MSG_GENERAL_NONE}
       /\ response.text \in GeneralAnswers => ~Called("fetch_website_content")
       /\ response.text = MSG_GENERAL_WEBSITE
            => /\ CalledBefore("get_general_answer", "fetch_website_content")
               /\ CalledBefore("fetch_website_content", "search_website_content")
       /\ response.text = MSG_GENERAL_NONE => Called("fetch_website_content")

(***************************************************************************)
(* Specification of the error tracker: errors are tracked one after the    *)
(* other while the clock moves on by more than an hour at a time.          *)
(***************************************************************************)
MaxTrackCalls == 52
TrackTick == 3601
MaxTrackTime == 7202

\* if _error_tracker["count"] > 50: logger.critical(...)
HighErrorRate(tracker) == tracker.count > 50

\* track_error(e, "get_nandu_response:critical") at time `now`
TrackError ==
    /\ ncalls < MaxTrackCalls
    /\ \E tracked \in {track_error(error_tracker, "Exception",
                                   "get_nandu_response:critical", now)} :
          /\ error_tracker' = tracked
          /\ calls' = IF HighErrorRate(tracked)
                      THEN <<"track_error", "logger.critical">>
                      ELSE <<"track_error">>
    /\ ncalls' = ncalls + 1
    /\ UNCHANGED <<now, rate_limiter, classification_cache, audit_log, response,
                   request, query_type>>
    /\ UNCHANGED mergeVars
    /\ UNCHANGED threadVars

TrackTimePasses ==
    /\ now + TrackTick <= MaxTrackTime
    /\ Tick(TrackTick)

NextTrack == TrackError \/ TrackTimePasses

SpecTrack == Init /\ [][NextTrack]_vars

\* A call of track_error has just returned
Tracked == ncalls' = ncalls + 1 /\ calls'[1] = "track_error"

\* C21: rolling count of the error tracker: after every call of track_error
\* the count is the number of errors tracked since the last hourly reset, the
\* error just tracked included (1 after a call that reset the counter, one
\* more than before after any other call), so it is at least 1; and a
\* critical alert is raised whenever the count is above 50.
C21_RollingCount ==
    [][Tracked =>
         /\ error_tracker'.count =
                IF error_tracker'.last_reset # error_tracker.last_reset THEN 1
                ELSE error_tracker.count + 1
         /\ error_tracker'.count >= 1
         /\ (error_tracker'.count > 50)
                <=> (\E i \in DOMAIN calls' : calls'[i] = "logger.critical")]_vars

(***************************************************************************)
(* Exceptions caught by get_nandu_response                                 *)
(***************************************************************************)
\* What the except clauses of get_nandu_response return (lines 1965, 1983,
\* 2030, 2079 and 2086)
ApologyMessages ==
    {MSG_LIBRARY_ERROR, MSG_WEBSITE_ERROR, MSG_GENERAL_ERROR, MSG_BOOKS_ERROR,
     MSG_CRITICAL}

\* The request just served ended in an except clause of get_nandu_response
ExceptionCaught == ncalls' = ncalls + 1 /\ response'.text \in ApologyMessages

\* C22: every exception caught while get_nandu_response handles a request, on
\* the book, general, library or website path or at the outermost boundary,
\* is tracked in the rolling error counter by one call of track_error, and
\* the user receives a generic apology without exception text.
C22_CaughtAreTracked ==
    [][ExceptionCaught =>
         /\ \E context \in {"get_nandu_response:book_query",
                            "get_nandu_response:critical",
                            "get_nandu_response:general_query",
                            "get_nandu_response:library_query",
                            "get_nandu_response:website_query"} :
               error_tracker' = track_error(error_tracker, "Exception", context, now)
         /\ response'.error = ""]_vars

(***************************************************************************)
(* Properties of the loaders and of semantic_search                        *)
(***************************************************************************)
\* The call of the thread has returned
SearchDone(t) == loader[t].pc = "idle" /\ loader[t].ncalls > 0

\* The thread leaves the waiting loop of the loader: it has seen the model in
\* the cache and returns the resources, or it raises
LeavesWait(t) ==
    \/ loader[t].pc = "wait" /\ loader'[t].pc = "search"
    \/ loader[t].pc = "read_cache" /\ loader[t].outcome = "waited"
            /\ loader'[t].pc = "search"

\* C23: bounded wait and silent degradation: a caller that finds a load in
\* progress polls at most 20 times and then either returns the cached
\* resources or fails with a timeout; semantic_search turns a timeout, a
\* missing index file or any other failure of the vector path into the
\* result of the TF-IDF fallback or an empty list, and never raises.
C23_BoundedWait ==
    /\ [](\A t \in LoaderThreads :
            /\ loader[t].polls <= PollLimit
            /\ (SearchDone(t) /\ loader[t].resource = "catalogue")
                  => /\ loader[t].result \in {"faiss", "tfidf", "empty"}
                     /\ LoaderFailed(loader[t].outcome)
                           => loader[t].result \in {"tfidf", "empty"})
    /\ [][\A t \in LoaderThreads :
            LeavesWait(t) => loader'[t].outcome \in {"waited", "timeout"}]_vars

\* C28: atomic publication of the loaded resources: a caller that sees the
\* cache as populated obtains model, index and mapping; it never fails
\* because only some of the three keys have been stored yet.
C28_AtomicPublication ==
    \A t \in LoaderThreads : loader[t].outcome # "KeyError"

\* Every later call of the loader of index r finds the cache
Populated(r) == CacheKeys \subseteq faiss_cache[r]

\* C30: loader recovery: the loading flag is set only while a caller is in
\* the load section, so it is never left set once that caller has returned
\* or raised, and a call that finds neither cache nor flag goes on to load;
\* once the three resources are stored, a call that looks at the cache
\* returns them without loading.
C30_LoaderRecovery ==
    /\ [](\A r \in Resources : faiss_loading[r] => InLoadSection(r) # {})
    /\ [][\A t \in LoaderThreads :
            /\ (loader[t].pc = "check_loading" /\ ~faiss_loading[loader[t].resource]
                    /\ loader'[t] # loader[t])
                 => loader'[t].pc = "set_loading"
            /\ (loader[t].pc = "check_cache" /\ Populated(loader[t].resource)
                    /\ loader'[t] # loader[t])
                 => loader'[t].pc = "read_cache" /\ loader'[t].outcome = "cached"
            /\ (loader[t].pc = "read_cache" /\ Populated(loader[t].resource)
                    /\ loader'[t] # loader[t])
                 => loader'[t].pc = "search" /\ loader'[t].outcome \in {"cached", "waited"}
         ]_vars

\* One caller's load of the catalogue index failed, another's succeeded and a
\* third got the cached resources; every call has returned and the flag is
\* not set
C30_Witness ==
    /\ \A t \in LoaderThreads : SearchDone(t) /\ loader[t].resource = "catalogue"
    /\ loader["t1"].outcome = "raised"
    /\ loader["t2"].outcome = "loaded"
    /\ loader["t3"].outcome = "cached"
    /\ Populated("catalogue")
    /\ ~faiss_loading["catalogue"]

(***************************************************************************)
(* Specification of the relevance score of search_catalogue: the CASE      *)
(* expression and the WHERE clause of its query are applied to catalogue   *)
(* rows and query variants made of a few short texts.                      *)
(***************************************************************************)
CatalogueTexts ==
    {<<"D","u","n","e">>, <<"d","u","n","e"," ","2">>, <<"h","e","r","b","e","r","t">>,
     <<"4","2">>, <<"x","4","2">>}

CatalogueRows ==
    [title : CatalogueTexts, author : CatalogueTexts, isbn : CatalogueTexts,
     itemcallnumber : CatalogueTexts]

QueryVariants == {<<"d","u","n","e">>, <<"4","2">>, <<"H","e","r","b">>}

\* LOWER(field) = LOWER(?)
SqlEquals(field, q_var) == Lower(field) = Lower(q_var)

\* LOWER(field) LIKE LOWER('%' || ? || '%'), for a variant without % and _
SqlLike(field, q_var) == Contains(Lower(field), Lower(q_var))

\* WHERE LOWER(title) LIKE ... OR LOWER(author) LIKE ... OR LOWER(isbn) LIKE ...
\* OR LOWER(itemcallnumber) LIKE ...
RowMatches(row, q_var) ==
    \/ SqlLike(row.title, q_var)
    \/ SqlLike(row.author, q_var)
    \/ SqlLike(row.isbn, q_var)
    \/ SqlLike(row.itemcallnumber, q_var)

\* CASE WHEN ... END as relevance_score: the first WHEN that holds decides
relevance_score(row, q_var) ==
    IF SqlEquals(row.title, q_var) THEN 100
    ELSE IF SqlLike(row.title, q_var) THEN 80
    ELSE IF SqlLike(row.author, q_var) THEN 70
    ELSE IF SqlEquals(row.isbn, q_var) THEN 90
    ELSE IF SqlLike(row.itemcallnumber, q_var) THEN 50
    ELSE 30

\* The row of the result set for a catalogue row, if it is selected
SelectRow(row, q_var) ==
    IF RowMatches(row, q_var)
    THEN [selected |-> TRUE, relevance_score |-> relevance_score(row, q_var)]
    ELSE [selected |-> FALSE, relevance_score |-> 0]

InitScore ==
    FunctionInit("search_catalogue",
                 {<<row, q_var>> : row \in CatalogueRows, q_var \in QueryVariants})

SearchCatalogue == Return(SelectRow(fn_call.args[1], fn_call.args[2]))

NextScore == SearchCatalogue

SpecScore == InitScore /\ [][NextScore]_vars

\* The scores of the rules a row satisfies
RuleScores(row, q_var) ==
    {30} \cup (IF SqlEquals(row.title, q_var) THEN {100} ELSE {})
         \cup (IF SqlEquals(row.isbn, q_var) THEN {90} ELSE {})
         \cup (IF SqlLike(row.title, q_var) THEN {80} ELSE {})
         \cup (IF SqlLike(row.author, q_var) THEN {70} ELSE {})
         \cup (IF SqlLike(row.itemcallnumber, q_var) THEN {50} ELSE {})

StrongestRule(row, q_var) ==
    CHOOSE s \in RuleScores(row, q_var) : \A o \in RuleScores(row, q_var) : o <= s

\* C24: relevance scoring of the catalogue: every matched row gets the score
\* of the strongest rule it satisfies (exact title 100, exact ISBN 90, title
\* substring 80, author substring 70, call-number substring 50, else 30), so
\* a row whose ISBN equals the variant scores at least 90, also when its
\* title or author contains the variant.
C24_StrongestRule ==
    (fn_call.op = "search_catalogue" /\ fn_result.done /\ fn_result.value.selected)
    => /\ fn_result.value.relevance_score
              = StrongestRule(fn_call.args[1], fn_call.args[2])
       /\ SqlEquals(fn_call.args[1].isbn, fn_call.args[2])
              => fn_result.value.relevance_score >= 90

(***************************************************************************)
(* sanitize_input and the order of the pipeline                            *)
(***************************************************************************)
\* [a-zA-Z0-9\s\-\.,?!\'] without the control characters, which the first
\* substitution has removed
SanitizedChars ==
    Range(UpperChars) \cup Range(LowerChars) \cup Digits
        \cup {" ", "-", ".", ",", "?", "!", "'"}

\* sanitize_input(query): drop every other character, collapse whitespace,
\* cut at 300 characters, strip
sanitize_input(query) ==
    Strip(Take(JoinSpace(Split(SelectSeq(query, LAMBDA c : c \in SanitizedChars))), 300))

\* C25: pipeline ordering: in every run of get_nandu_response the raw query
\* is sanitized before it is validated, and only the sanitized text reaches
\* spelling correction, classification and the retrievers: every key the
\* classifier stores is a sanitized text.
C25_SanitizedFirst ==
    (request.op = "get_nandu_response" /\ Called("is_valid_query"))
    => /\ CalledBefore("sanitize_input", "is_valid_query")
       /\ \A i \in DOMAIN classification_cache :
             classification_cache[i].key
                = CacheKey(sanitize_input(classification_cache[i].key))

(***************************************************************************)
(* Specification of the classification cache under threads: two threads    *)
(* call get_cached_classification and cache_classification; a step of a    *)
(* thread is one statement, and the interpreter may switch threads between *)
(* any two of them. The cache starts with one entry that has just expired, *)
(* or full to its limit, as the requests before have left it.              *)
(***************************************************************************)
MaxClassifierCalls == 1
EvictBatch == 50

\* "fine", classified general at time 0 and looked up two hours later
ExpiredCache ==
    <<[key |-> <<"f","i","n","e">>, classification |-> "general", timestamp |-> 0]>>

\* CacheMaxEntries queries classified one after the other
FullCache ==
    [n \in 1..CacheMaxEntries |->
        [key |-> FillQuery(n), classification |-> "general", timestamp |-> 0]]

\* The queries the threads classify: "fine" and two queries not seen before
ThreadQueries ==
    {<<"f","i","n","e">>, FillQuery(CacheMaxEntries + 1), FillQuery(CacheMaxEntries + 2)}

InitClassifiers ==
    /\ now \in {0, CLASSIFICATION_CACHE_TTL}
    /\ classification_cache = IF now = 0 THEN FullCache ELSE ExpiredCache
    /\ rate_limiter = <<>>
    /\ audit_log = <<>>
    /\ calls = <<>>
    /\ response = StrResponse("")
    /\ error_tracker = [count |-> 0, last_reset |-> 0, recent_errors |-> <<>>]
    /\ ncalls = 0
    /\ request = NoCall
    /\ query_type = ""
    /\ NoMerge /\ NoLoaders /\ NoWorkers /\ NoFunction
    /\ admin_log = <<>> /\ site = DefaultSite
    /\ NoClassifiers

\* The thread goes to statement pc
Goto(t, pc) == classifier' = [classifier EXCEPT ![t].pc = pc]

\* The function returns or raises
Leave(t, outcome) ==
    classifier' = [classifier EXCEPT ![t].pc = "idle", ![t].outcome = outcome]

\* A thread calls get_cached_classification(q): query_key = query.lower().strip()
ThreadLookupCall(t, q) ==
    /\ classifier[t].pc = "idle"
    /\ classifier[t].ncalls < MaxClassifierCalls
    /\ classifier' = [classifier EXCEPT ![t] =
          [IdleClassifier EXCEPT !.pc = "contains", !.query_key = CacheKey(q),
                                 !.ncalls = classifier[t].ncalls + 1]]
    /\ UNCHANGED classification_cache

\* if query_key in classification_cache
ThreadContains(t) ==
    /\ classifier[t].pc = "contains"
    /\ IF CacheHas(classification_cache, classifier[t].query_key)
       THEN Goto(t, "read")
       ELSE Leave(t, "None")
    /\ UNCHANGED classification_cache

\* classification, timestamp = classification_cache[query_key]
ThreadRead(t) ==
    /\ classifier[t].pc = "read"
    /\ IF CacheHas(classification_cache, classifier[t].query_key)
       THEN classifier' = [classifier EXCEPT
               ![t].pc = "compare",
               ![t].entry = classification_cache[
                                CacheIndex(classification_cache, classifier[t].query_key)]]
       ELSE Leave(t, "KeyError")
    /\ UNCHANGED classification_cache

\* if time.time() - timestamp < CLASSIFICATION_CACHE_TTL: return classification
ThreadCompare(t) ==
    /\ classifier[t].pc = "compare"
    /\ IF now - classifier[t].entry.timestamp < CLASSIFICATION_CACHE_TTL
       THEN Leave(t, classifier[t].entry.classification)
       ELSE Goto(t, "del")
    /\ UNCHANGED classification_cache

\* del classification_cache[query_key]; return None
ThreadDelete(t) ==
    /\ classifier[t].pc = "del"
    /\ IF CacheHas(classification_cache, classifier[t].query_key)
       THEN /\ classification_cache' =
                  RemoveAt(classification_cache,
                           {CacheIndex(classification_cache, classifier[t].query_key)})
            /\ Leave(t, "None")
       ELSE /\ Leave(t, "KeyError")
            /\ UNCHANGED classification_cache

\* A thread calls cache_classification(q, 'general')
ThreadCacheCall(t, q) ==
    /\ classifier[t].pc = "idle"
    /\ classifier[t].ncalls < MaxClassifierCalls
    /\ classifier' = [classifier EXCEPT ![t] =
          [IdleClassifier EXCEPT !.pc = "store", !.query_key = CacheKey(q),
                                 !.ncalls = classifier[t].ncalls + 1]]
    /\ UNCHANGED classification_cache

\* classification_cache[query_key] = (classification, time.time())
ThreadStore(t) ==
    /\ classifier[t].pc = "store"
    /\ classification_cache' =
          StoreEntry(classification_cache, classifier[t].query_key, "general", now)
    /\ Goto(t, "len")

\* if len(classification_cache) > 500
ThreadCheckSize(t) ==
    /\ classifier[t].pc = "len"
    /\ IF Len(classification_cache) > CacheMaxEntries
       THEN Goto(t, "sorted")
       ELSE Leave(t, "stored")
    /\ UNCHANGED classification_cache

\* The keys at the positions S of the cache, in the order of the positions
KeysAt(cache, S) ==
    [k \in 1..Cardinality(S) |->
        cache[CHOOSE i \in S : Cardinality({j \in S : j < i}) = k - 1].key]

\* sorted_cache = sorted(classification_cache.items(), key=...)[:100]; in this
\* specification every entry has the same timestamp, so that the order is the
\* order of insertion
ThreadSorted(t) ==
    /\ classifier[t].pc = "sorted"
    /\ classifier' = [classifier EXCEPT
          ![t].pc = "evict",
          ![t].sorted_cache =
              KeysAt(classification_cache,
                     OldestEntries(classification_cache, CacheEvictCount))]
    /\ UNCHANGED classification_cache

\* The rounds of `for key, _ in sorted_cache[:100]: del classification_cache[key]`
\* that the thread runs before the interpreter switches to another thread: at
\* most EvictBatch of them; the first key that is no longer in the cache
\* raises KeyError, after the keys before it have been deleted
ThreadEvict(t) ==
    /\ classifier[t].pc = "evict"
    /\ LET keys == classifier[t].sorted_cache
           n == IF Len(keys) < EvictBatch THEN Len(keys) ELSE EvictBatch
           missing == {k \in 1..n : ~CacheHas(classification_cache, keys[k])}
           last == IF missing = {} THEN n
                   ELSE (CHOOSE k \in missing : \A m \in missing : k <= m) - 1
           deleted == {CacheIndex(classification_cache, keys[k]) : k \in 1..last}
       IN  IF keys = <<>>
           THEN /\ Leave(t, "stored")
                /\ UNCHANGED classification_cache
           ELSE /\ classification_cache' = RemoveAt(classification_cache, deleted)
                /\ IF missing = {}
                   THEN classifier' = [classifier EXCEPT
                           ![t].sorted_cache = SubSeq(keys, n + 1, Len(keys))]
                   ELSE Leave(t, "KeyError")

ClassifierStep(t) ==
    \/ \E q \in ThreadQueries : ThreadLookupCall(t, q)
    \/ ThreadContains(t)
    \/ ThreadRead(t)
    \/ ThreadCompare(t)
    \/ ThreadDelete(t)
    \/ \E q \in ThreadQueries : ThreadCacheCall(t, q)
    \/ ThreadStore(t)
    \/ ThreadCheckSize(t)
    \/ ThreadSorted(t)
    \/ ThreadEvict(t)

NextClassifiers ==
    /\ \E t \in ClassifierThreads : ClassifierStep(t)
    /\ UNCHANGED <<now, rate_limiter, audit_log, calls, response, error_tracker, ncalls,
                   request, query_type>>
    /\ UNCHANGED <<mergeVars, loaderVars, limiterVars, functionVars, adminVars, siteVars>>

SpecClassifiers == InitClassifiers /\ [][NextClassifiers]_vars

\* C26: the classification cache is safe under concurrent access: in every
\* interleaving get_cached_classification and cache_classification complete
\* without raising, also when two requests look up the same expired key or
\* two insertions trigger the clean-up at once, and once the calls have
\* returned the cache has at most 500 entries.
C26_ConcurrentCache ==
    /\ \A t \in ClassifierThreads : classifier[t].outcome # "KeyError"
    /\ (\A t \in ClassifierThreads : classifier[t].pc = "idle")
          => Len(classification_cache) <= CacheMaxEntries

(***************************************************************************)
(* hybrid_book_search: the rows of the catalogue retriever and of the      *)
(* semantic retriever, concatenated and merged. The two retrievers read    *)
(* the same table, so that a row can come back from both.                  *)
(***************************************************************************)
MaxRetrieved == 2

\* The table `catalogue`: two copies of "Foo" whose author is written in two
\* ways, a copy of "Bar", and a row of "Bar" without a barcode
HybridCatalogue == <<
    [Title |-> <<"F","o","o">>, Author |-> <<"J","."," ","S","m","i","t","h">>,
     ISBN |-> <<"I","1">>, Barcode |-> <<"B","1">>, CallNo |-> <<"C","1">>,
     Publisher |-> <<"P","1">>, Year |-> <<"2","0","0","1">>],
    [Title |-> <<"F","o","o">>, Author |-> <<"J","o","h","n"," ","S","m","i","t","h">>,
     ISBN |-> <<"I","2">>, Barcode |-> <<"B","2">>, CallNo |-> <<"C","1">>,
     Publisher |-> <<"P","1">>, Year |-> <<"2","0","0","2">>],
    [Title |-> <<"B","a","r">>, Author |-> <<"K","."," ","J","o","n","e","s">>,
     ISBN |-> <<"I","3">>, Barcode |-> <<"B","3">>, CallNo |-> <<"C","3">>,
     Publisher |-> <<"P","2">>, Year |-> <<"2","0","0","3">>],
    [Title |-> <<"B","a","r">>, Author |-> <<"K","."," ","J","o","n","e","s">>,
     ISBN |-> <<"I","4">>, Barcode |-> <<>>, CallNo |-> <<"C","3">>,
     Publisher |-> <<"P","2">>, Year |-> <<"2","0","0","4">>]>>

\* What one retriever returns: rows of the table, none of them twice
RetrievedLists ==
    {[i \in DOMAIN p |-> HybridCatalogue[p[i]]] :
        p \in {s \in UNION {[1..n -> DOMAIN HybridCatalogue] : n \in 0..MaxRetrieved} :
                  \A i, j \in DOMAIN s : s[i] = s[j] => i = j}}

\* all_results.extend(catalogue_results); all_results.extend(semantic_results);
\* merge_duplicates(all_results) if there is a result, else []
hybrid_book_search(catalogue_results, semantic_results) ==
    LET all_results == catalogue_results \o semantic_results
    IN  IF all_results # <<>> THEN merge_duplicates(all_results) ELSE <<>>

InitHybrid ==
    FunctionInit("hybrid_book_search",
                 {<<c, s>> : c \in RetrievedLists, s \in RetrievedLists})

HybridBookSearch == Return(hybrid_book_search(fn_call.args[1], fn_call.args[2]))

NextHybrid == HybridBookSearch

SpecHybrid == InitHybrid /\ [][NextHybrid]_vars

\* The records the two retrievers returned that belong to the group g
RecordsOf(g, all_results) ==
    {i \in DOMAIN all_results :
        GroupKey(Strip(all_results[i].Title), Strip(all_results[i].Author)) = g.key}

\* C27: cross-strategy deduplication in hybrid_book_search: a catalogue row
\* that both retrievers return is counted once, so that in every merged
\* group whose records all carry an accession number, copies is the number
\* of distinct accession numbers of the group.
C27_CopiesAreAccessions ==
    (fn_call.op = "hybrid_book_search" /\ fn_result.done)
    => LET all_results == fn_call.args[1] \o fn_call.args[2]
       IN  \A i \in DOMAIN fn_result.value :
              (\A r \in RecordsOf(fn_result.value[i], all_results) :
                    Strip(all_results[r].Barcode) # <<>>)
              => fn_result.value[i].copies =
                    Cardinality({Strip(all_results[r].Barcode) :
                                    r \in RecordsOf(fn_result.value[i], all_results)})

(***************************************************************************)
(* Properties of the audit log                                             *)
(***************************************************************************)
\* The answers that reject a query (lines 1864 and 1875)
RejectionMessages == {MSG_TOO_LONG, LENGTH_ERROR, GIBBERISH_ERROR}

\* The request just served wrote to the audit log
Audited == ncalls' = ncalls + 1 /\ audit_log' # audit_log

\* C29: audit record fidelity: a request that get_nandu_response answers
\* writes a single audit record, whose response_length is the length of the
\* response returned to the caller and whose success flag is false exactly
\* when that response is a rejection or an error/apology message.
C29_AuditFidelity ==
    [][Audited =>
         /\ Len(audit_log') = Len(audit_log) + 1
         /\ audit_log'[Len(audit_log')].response_length = Len(response'.text)
         /\ (audit_log'[Len(audit_log')].success = FALSE
                <=> response'.text \in RejectionMessages \cup ApologyMessages)]_vars

====
